---- MODULE Spec2Model ----
(***************************************************************************)
(* Interactive session loop and streaming-event consumer of the Code AI    *)
(* terminal client (src/codeai/tux.py, class CodeAITux).                   *)
(*                                                                         *)
(* Text is modelled as a sequence of one-character strings, so that        *)
(* concatenation, prefix tests, splitting and case folding are computed.   *)
(* An optional value (Python None or a value) is a sequence of length 0    *)
(* or 1: Absent == <<>>, Some(x) == <<x>>.                                 *)
(***************************************************************************)
EXTENDS Integers, Sequences, FiniteSets, TLC

(***************************************************************************)
(* Bounds of the model.                                                    *)
(***************************************************************************)
\* send_message invocations in one session
MaxTurns == 2
\* what the stream of one turn carries: tool-call-start events plus
\* characters of tool-call arguments plus characters of response text,
\* where the first turn is followed alone (TurnSpec)
MaxStream == 3

\* the same, for each turn of a whole session (Spec)
MaxSessionStream == 2

(***************************************************************************)
(* Optional values and text.                                               *)
(***************************************************************************)
Absent == <<>>

Some(x) == <<x>>

Present(S) == {Some(x) : x \in S}

Opt(S) == {Absent} \cup Present(S)

\* Python's `x or d` for an optional text x: None and "" both give d.
OrElse(opt, d) == IF opt = Absent \/ opt[1] = <<>> THEN d ELSE opt[1]

\* dict.get(key, d): the default only replaces a missing key.
GetOr(opt, d) == IF opt = Absent THEN d ELSE opt[1]

\* the characters streamed as tool-call arguments and as response text
ArgChunks == {<<"a">>, <<"b">>}

TextChunks == {<<"H">>, <<"i">>}

ToolCallIds == {"t1", "t2"}

\* tool results carried by tool-call-result events
ToolResults == {<<"f", "o", "u", "n", "d">>}

\* tool names carried by tool-call-start events
ToolNames == {"search"}

(***************************************************************************)
(* Slash commands: the list built by CodeAITux._register_commands and the  *)
(* table (name or alias -> command) it fills.                              *)
(***************************************************************************)
CoreCommands ==
  <<
    [name |-> <<"c", "o", "n", "t", "e", "x", "t">>,
       aliases |-> <<>>,
       handler |-> "_cmd_context", shortcut |-> Some("escape x")],
    [name |-> <<"c", "l", "e", "a", "r">>,
       aliases |-> <<<<"r", "e", "s", "e", "t">>, <<"n", "e", "w">>>>,
       handler |-> "_cmd_clear", shortcut |-> Some("escape c")],
    [name |-> <<"h", "e", "l", "p">>,
       aliases |-> <<<<"?">>>>,
       handler |-> "_cmd_help", shortcut |-> Some("escape h")],
    [name |-> <<"s", "t", "a", "t", "u", "s">>,
       aliases |-> <<>>,
       handler |-> "_cmd_status", shortcut |-> Some("escape s")],
    [name |-> <<"e", "x", "i", "t">>,
       aliases |-> <<<<"q", "u", "i", "t">>, <<"q">>>>,
       handler |-> "_cmd_exit", shortcut |-> Some("escape q")],
    [name |-> <<"a", "g", "e", "n", "t", "s">>,
       aliases |-> <<>>,
       handler |-> "_cmd_agents", shortcut |-> Some("escape a")],
    [name |-> <<"t", "o", "o", "l", "s">>,
       aliases |-> <<>>,
       handler |-> "_cmd_tools", shortcut |-> Some("escape t")],
    [name |-> <<"m", "c", "p", "-", "s", "e", "r", "v", "e", "r", "s">>,
       aliases |-> <<<<"m", "c", "p">>>>,
       handler |-> "_cmd_mcp_servers", shortcut |-> Some("escape m")],
    [name |-> <<"s", "k", "i", "l", "l", "s">>,
       aliases |-> <<>>,
       handler |-> "_cmd_skills", shortcut |-> Some("escape k")],
    [name |-> <<"c", "o", "d", "e", "m", "o", "d", "e", "-", "t", "o", "g", "g", "l", "e">>,
       aliases |-> <<<<"c", "o", "d", "e", "m", "o", "d", "e">>>>,
       handler |-> "_cmd_codemode_toggle", shortcut |-> Some("escape o")],
    [name |-> <<"c", "o", "n", "t", "e", "x", "t", "-", "e", "x", "p", "o", "r", "t">>,
       aliases |-> <<<<"e", "x", "p", "o", "r", "t">>>>,
       handler |-> "_cmd_context_export", shortcut |-> Some("escape e")],
    [name |-> <<"t", "o", "o", "l", "s", "-", "l", "a", "s", "t">>,
       aliases |-> <<<<"t", "l">>>>,
       handler |-> "_cmd_tools_last", shortcut |-> Some("escape l")],
    [name |-> <<"c", "l", "s">>,
       aliases |-> <<>>,
       handler |-> "_cmd_cls", shortcut |-> Absent]
  >>

EggCommands ==
  <<
    [name |-> <<"r", "a", "i", "n">>,
       aliases |-> <<>>,
       handler |-> "_cmd_rain", shortcut |-> Some("escape r")],
    [name |-> <<"a", "b", "o", "u", "t">>,
       aliases |-> <<>>,
       handler |-> "_cmd_about", shortcut |-> Some("escape l")],
    [name |-> <<"g", "i", "f">>,
       aliases |-> <<>>,
       handler |-> "_cmd_gif", shortcut |-> Some("escape g")]
  >>

JupyterCommand ==
  <<
    [name |-> <<"j", "u", "p", "y", "t", "e", "r">>,
       aliases |-> <<>>,
       handler |-> "_cmd_jupyter", shortcut |-> Some("escape j")]
  >>

\* commands/suggestions.py: NAME, ALIASES, SHORTCUT and execute, which returns
\* the suggestion the user picked
SuggestionsCommand ==
  [name |-> <<"s", "u", "g", "g", "e", "s", "t", "i", "o", "n", "s">>,
   aliases |-> <<<<"s", "u", "g", "g", "e", "s", "t">>>>,
   handler |-> "suggestions.execute", shortcut |-> Some("escape u")]

BrowserCommand ==
  <<
    [name |-> <<"b", "r", "o", "w", "s", "e", "r">>,
       aliases |-> <<>>,
       handler |-> "_cmd_browser", shortcut |-> Some("escape w")]
  >>

\* the `commands` list of _register_commands, in registration order
CommandList(eggs, jupyter_url) ==
  CoreCommands
    \o (IF eggs THEN EggCommands ELSE <<>>)
    \o (IF jupyter_url # Absent /\ jupyter_url[1] # <<>> THEN JupyterCommand ELSE <<>>)
    \o BrowserCommand

\* a variant that stores a command under its name only
KeysOf_NameOnly(cmd) == <<cmd.name>>

\* the keys one command is stored under: its name, then its aliases
KeysOf(cmd) == <<cmd.name>> \o cmd.aliases

\* the dict after `for cmd in commands: ... self.commands[...] = cmd`:
\* a later assignment to the same key replaces the earlier one
RECURSIVE Register(_, _)
Register(table, cmds) ==
  IF cmds = <<>> THEN table
  ELSE LET cmd == Head(cmds)
           keys == {KeysOf(cmd)[i] : i \in 1..Len(KeysOf(cmd))}
           merged == [k \in (DOMAIN table) \cup keys |->
                        IF k \in keys THEN cmd ELSE table[k]]
       IN Register(merged, Tail(cmds))

RegisterCommands(eggs, jupyter_url) ==
  Register([k \in {} |-> <<>>], CommandList(eggs, jupyter_url))

\* commands.build_commands: the modules in its order, each with its NAME,
\* ALIASES and SHORTCUT, which are those of the command of the same name in
\* _register_commands; the handler is the execute of the module
AsModule(cmd) == [cmd EXCEPT !.handler = "execute"]

ModuleList(eggs, jupyter_url) ==
  LET listed == CoreCommands \o BrowserCommand \o <<SuggestionsCommand>>
                  \o (IF eggs THEN EggCommands ELSE <<>>)
                  \o (IF jupyter_url # Absent /\ jupyter_url[1] # <<>>
                      THEN JupyterCommand ELSE <<>>)
  IN [i \in 1..Len(listed) |-> AsModule(listed[i])]

BuildCommands(eggs, jupyter_url) ==
  Register([k \in {} |-> <<>>], ModuleList(eggs, jupyter_url))

\* the keys of the dict in the order of their first assignment, which is the
\* order of self.commands.values()
RECURSIVE KeyOrder(_, _)
KeyOrder(order, keys) ==
  IF keys = <<>> THEN order
  ELSE KeyOrder(IF \E i \in 1..Len(order) : order[i] = Head(keys)
                THEN order ELSE Append(order, Head(keys)),
                Tail(keys))

RECURSIVE AllKeys(_)
AllKeys(cmds) == IF cmds = <<>> THEN <<>> ELSE KeysOf(Head(cmds)) \o AllKeys(Tail(cmds))

\* the loop of _create_key_bindings over the values: a command with a
\* shortcut whose name is not yet a value of the map is stored under its
\* shortcut, replacing what was there. A shortcut string stands for the tuple
\* of its split(): two of them give the same tuple only when they are equal.
RECURSIVE ShortcutMap(_, _)
ShortcutMap(shortcut_map, values) ==
  IF values = <<>> THEN shortcut_map
  ELSE LET cmd == Head(values)
           named == {shortcut_map[k] : k \in DOMAIN shortcut_map}
       IN ShortcutMap(
            IF cmd.shortcut # Absent /\ cmd.name \notin named
            THEN [k \in (DOMAIN shortcut_map) \cup {cmd.shortcut[1]} |->
                    IF k = cmd.shortcut[1] THEN cmd.name ELSE shortcut_map[k]]
            ELSE shortcut_map,
            Tail(values))

\* _create_key_bindings: the command name each key sequence is bound to
CreateKeyBindings(table, cmds) ==
  LET order == KeyOrder(<<>>, AllKeys(cmds))
  IN ShortcutMap([k \in {} |-> <<>>], [i \in 1..Len(order) |-> table[order[i]]])

(***************************************************************************)
(* Text operations used on an input line: str.strip, str.startswith,       *)
(* str.split(maxsplit=1) and str.lower.                                    *)
(***************************************************************************)
IsSpace(c) == c \in {" ", "\t"}

RECURSIVE SumLen(_)
SumLen(seqs) == IF seqs = <<>> THEN 0 ELSE Len(Head(seqs)) + SumLen(Tail(seqs))

RECURSIVE LStrip(_)
LStrip(s) == IF s # <<>> /\ IsSpace(Head(s)) THEN LStrip(Tail(s)) ELSE s

RECURSIVE RStrip(_)
RStrip(s) ==
  IF s # <<>> /\ IsSpace(s[Len(s)]) THEN RStrip(SubSeq(s, 1, Len(s) - 1)) ELSE s

Strip(s) == RStrip(LStrip(s))

StartsWithSlash(s) == s # <<>> /\ s[1] = "/"

\* the longest prefix of s without white space
RECURSIVE Word(_)
Word(s) == IF s = <<>> \/ IsSpace(Head(s)) THEN <<>> ELSE <<Head(s)>> \o Word(Tail(s))

\* s.split(maxsplit=1): at most two parts, none when s is blank
SplitOnce(s) ==
  LET body == LStrip(s)
      first == Word(body)
      rest == Strip(SubSeq(body, Len(first) + 1, Len(body)))
  IN IF body = <<>> THEN <<>>
     ELSE IF rest = <<>> THEN <<first>> ELSE <<first, rest>>

UpperCase == <<"A", "B", "C", "D", "E", "F", "G", "H", "I", "J", "K", "L", "M", "N", "O", "P", "Q", "R", "S", "T", "U", "V", "W", "X", "Y", "Z">>

LowerCase == <<"a", "b", "c", "d", "e", "f", "g", "h", "i", "j", "k", "l", "m", "n", "o", "p", "q", "r", "s", "t", "u", "v", "w", "x", "y", "z">>

LowerChar(c) ==
  IF \E i \in 1..Len(UpperCase) : UpperCase[i] = c
  THEN LowerCase[CHOOSE i \in 1..Len(UpperCase) : UpperCase[i] = c]
  ELSE c

\* a variant that leaves the case as typed
Lower_AsTyped(s) == s

Lower(s) == [i \in 1..Len(s) |-> LowerChar(s[i])]

\* handle_command: the name looked up for an input line that starts with "/"
CommandName(user_input) ==
  LET parts == SplitOnce(SubSeq(user_input, 2, Len(user_input)))
  IN IF parts # <<>> THEN Lower(parts[1]) ELSE <<>>

(***************************************************************************)
(* Records of the session.                                                 *)
(***************************************************************************)
\* SessionStats()
NewSessionStats ==
  [total_input_tokens |-> 0, total_output_tokens |-> 0, total_requests |-> 0,
   messages |-> 0, tool_calls |-> 0]

\* a variant that leaves the output tokens out of the total
TotalTokens_InputOnly(st) == st.total_input_tokens

\* SessionStats.total_tokens
TotalTokens(st) == st.total_input_tokens + st.total_output_tokens

\* ToolCallInfo(tool_call_id=..., tool_name=..., status="in_progress")
NewToolCallInfo(tool_call_id, tool_name) ==
  [tool_call_id |-> tool_call_id, tool_name |-> tool_name, args_json |-> <<>>,
   result |-> Absent, status |-> "in_progress", expanded |-> FALSE]

\* _agui_client is None
NoClient == 0

\* current_tool_call is None; otherwise the position in tool_calls of the
\* ToolCallInfo object the local variable refers to
NoToolCall == 0

(***************************************************************************)
(* Events of the agent stream (ag_ui EventType and the fields             *)
(* send_message reads of each).                                            *)
(***************************************************************************)
TextEvents == [type : {"TEXT_MESSAGE_CONTENT"}, delta : Opt(TextChunks)]

StartEvents ==
  [type : {"TOOL_CALL_START"}, tool_call_id : Present(ToolCallIds),
   tool_name : Opt(ToolNames)]

ArgsEvents ==
  [type : {"TOOL_CALL_ARGS"}, tool_call_id : Present(ToolCallIds),
   tool_args : Opt(ArgChunks)]

EndEvents == [type : {"TOOL_CALL_END"}, tool_call_id : Present(ToolCallIds)]

ResultEvents ==
  [type : {"TOOL_CALL_RESULT"}, tool_call_id : Present(ToolCallIds),
   tool_result : Opt(ToolResults)]

FinishedEvents == [type : {"RUN_FINISHED"}]

ErrorEvents == [type : {"RUN_ERROR"}]

\* event types send_message has no branch for
OtherEvents == [type : {"RUN_STARTED"}]

Events ==
  TextEvents \cup StartEvents \cup ArgsEvents \cup EndEvents \cup ResultEvents
    \cup FinishedEvents \cup ErrorEvents \cup OtherEvents

\* the events of a stream with one tool-call id and every field present
PlainEvents ==
  {ev \in Events :
     /\ "tool_call_id" \in DOMAIN ev => ev.tool_call_id = Some("t1")
     /\ "tool_name" \in DOMAIN ev => ev.tool_name # Absent
     /\ "tool_args" \in DOMAIN ev => ev.tool_args = Some(<<"a">>)
     /\ "tool_result" \in DOMAIN ev => ev.tool_result # Absent
     /\ "delta" \in DOMAIN ev => ev.delta = Some(<<"H">>)
     /\ ev.type # "RUN_STARTED"}

\* `event.tool_call_id or ""`
IdOf(ev) == IF ev.tool_call_id = Absent THEN "" ELSE ev.tool_call_id[1]

\* Python's `x or d` for an optional string x
StrOr(opt, d) == IF opt = Absent \/ opt[1] = "" THEN d ELSE opt[1]

\* `event.tool_name or "tool"`
NameOf(ev) == StrOr(ev.tool_name, "tool")

(***************************************************************************)
(* Inputs of the environment.                                              *)
(***************************************************************************)
\* what prompt_async delivers: a typed line, end of input, or an interrupt
TypedLines ==
  { <<>>,
    <<" ">>,
    <<"h", "i">>,
    <<"/">>,
    <<"/", "c", "l", "e", "a", "r">>,
    <<"/", "N", "e", "w", " ", "x">>,
    <<"/", "e", "x", "i", "t">>,
    <<" ", "/", "q", " ">>,
    <<"/", "t", "l">>,
    <<"/", "f", "o", "o">>,
    <<"/", "s", "u", "g", "g", "e", "s", "t">> }

PromptInputs ==
  [kind : {"line"}, text : TypedLines] \cup [kind : {"eof", "interrupt"}, text : {<<>>}]

\* the lines of a session of several turns: one of each kind of line
SessionLines ==
  { <<>>,
    <<"h", "i">>,
    <<"/", "c", "l", "e", "a", "r">>,
    <<"/", "e", "x", "i", "t">>,
    <<"/", "f", "o", "o">>,
    <<"/", "s", "u", "g", "g", "e", "s", "t">> }

SessionInputs ==
  [kind : {"line"}, text : SessionLines] \cup [kind : {"eof", "interrupt"}, text : {<<>>}]

\* the context-snapshot document of the server, each key present or missing
TokenCounts == {2}

ModelNames == {"gpt"}

ContextWindows == {200000}

\* the empty document and the documents with every key
SnapshotDocs ==
  [sumResponseInputTokens : {Absent}, sumResponseOutputTokens : {Absent},
   modelName : {Absent}, contextWindow : {Absent}]
  \cup
  [sumResponseInputTokens : Present(TokenCounts),
   sumResponseOutputTokens : Present(TokenCounts),
   modelName : Present(ModelNames), contextWindow : Present(ContextWindows)]

\* the outcome of one GET of the snapshot: an exception (refused, timeout,
\* invalid JSON), a non-200 response, or a 200 response with a document
HttpFailure == [status : {0, 500}, data : {Absent}]

SnapshotReplies == HttpFailure \cup [status : {200}, data : {Some(d) : d \in SnapshotDocs}]

\* status 0 stands for an exception raised by the HTTP call
Raised(reply) == reply.status = 0

(***************************************************************************)
(* ToolCallInfo.format_args.  json.loads is modelled on texts over the     *)
(* characters { } [ ] " : , \ the space, the new line, the digits and the  *)
(* letters k q x a n: objects, lists, strings and unsigned integers.       *)
(***************************************************************************)
\* the digits an integer conversion accepts (sys.get_int_max_str_digits())
IntMaxStrDigits == 4300

JsonSpace == {" ", "\n"}

JsonDigits == {"0", "1", "2", "3", "4", "5", "6", "7", "8", "9"}

DigitChars == <<"0", "1", "2", "3", "4", "5", "6", "7", "8", "9">>

\* the least element of a non-empty set of numbers
Least(S) == CHOOSE i \in S : \A j \in S : i <= j

\* WHITESPACE.match(s, i).end(): the first position from i on that holds no
\* white space
SkipSpace(s, i) ==
  LET inked == {j \in i..Len(s) : s[j] \notin JsonSpace}
  IN IF inked = {} THEN Len(s) + 1 ELSE Least(inked)

\* the results of a scan: a value and the position after it, or an exception
Scanned(val, end) == [err |-> "none", end |-> end, val |-> val]

Failed(err) == [err |-> err, end |-> 0, val |-> [t |-> "none"]]

\* dict[key] = val: a key already there keeps its place
Put(items, key, val) ==
  IF \E i \in 1..Len(items) : items[i].key = key
  THEN [i \in 1..Len(items) |->
          IF items[i].key = key THEN [key |-> key, val |-> val] ELSE items[i]]
  ELSE Append(items, [key |-> key, val |-> val])

\* py_scanstring from the character after the opening quote
RECURSIVE ScanString(_, _, _)
ScanString(s, j, acc) ==
  IF j > Len(s) THEN Failed("JSONDecodeError")
  ELSE CASE s[j] = "\"" -> Scanned([t |-> "str", s |-> acc], j + 1)
         [] s[j] = "\n" -> Failed("JSONDecodeError")
         [] s[j] = "\\" ->
              IF j + 1 > Len(s) THEN Failed("JSONDecodeError")
              ELSE CASE s[j + 1] = "n" -> ScanString(s, j + 2, Append(acc, "\n"))
                     [] s[j + 1] \in {"\"", "\\"} ->
                          ScanString(s, j + 2, Append(acc, s[j + 1]))
                     [] OTHER -> Failed("JSONDecodeError")
         [] OTHER -> ScanString(s, j + 1, Append(acc, s[j]))

\* NUMBER_RE and int(): 0, or a digit from 1 to 9 and the digits after it;
\* with the limit in force a longer integer raises ValueError
ScanNumber(s, i, limited) ==
  LET others == {j \in i..Len(s) : s[j] \notin JsonDigits}
      end == CASE s[i] = "0" -> i + 1
               [] others = {} -> Len(s) + 1
               [] OTHER -> Least(others)
  IN IF limited /\ end - i > IntMaxStrDigits THEN Failed("ValueError")
     ELSE Scanned([t |-> "int", s |-> SubSeq(s, i, end - 1)], end)

RECURSIVE ScanOnce(_, _, _), ScanMembers(_, _, _, _), ScanElements(_, _, _, _)

\* scan_once: the value that begins at position i
ScanOnce(s, i, limited) ==
  IF i > Len(s) THEN Failed("JSONDecodeError")
  ELSE CASE s[i] = "\"" -> ScanString(s, i + 1, <<>>)
         [] s[i] = "{" ->
              LET j == SkipSpace(s, i + 1)
              IN CASE j > Len(s) -> Failed("JSONDecodeError")
                   [] s[j] = "}" -> Scanned([t |-> "dict", items |-> <<>>], j + 1)
                   [] s[j] = "\"" -> ScanMembers(s, j, <<>>, limited)
                   [] OTHER -> Failed("JSONDecodeError")
         [] s[i] = "[" ->
              LET j == SkipSpace(s, i + 1)
              IN CASE j > Len(s) -> Failed("JSONDecodeError")
                   [] s[j] = "]" -> Scanned([t |-> "list", items |-> <<>>], j + 1)
                   [] OTHER -> ScanElements(s, j, <<>>, limited)
         [] s[i] \in JsonDigits -> ScanNumber(s, i, limited)
         [] OTHER -> Failed("JSONDecodeError")

\* JSONObject from the quote of a key: `"key" : value`, then `,` or `}`
ScanMembers(s, j, items, limited) ==
  LET key == ScanString(s, j + 1, <<>>)
      colon == SkipSpace(s, key.end)
      val == ScanOnce(s, SkipSpace(s, colon + 1), limited)
      sep == SkipSpace(s, val.end)
      next == SkipSpace(s, sep + 1)
      more == Put(items, key.val.s, val.val)
  IN IF key.err # "none" THEN key
     ELSE IF colon > Len(s) \/ s[colon] # ":" THEN Failed("JSONDecodeError")
     ELSE IF val.err # "none" THEN val
     ELSE IF sep > Len(s) THEN Failed("JSONDecodeError")
     ELSE IF s[sep] = "}" THEN Scanned([t |-> "dict", items |-> more], sep + 1)
     ELSE IF s[sep] # "," THEN Failed("JSONDecodeError")
     ELSE IF next > Len(s) \/ s[next] # "\"" THEN Failed("JSONDecodeError")
     ELSE ScanMembers(s, next, more, limited)

\* JSONArray from its first value: value, then `,` or `]`
ScanElements(s, j, items, limited) ==
  LET val == ScanOnce(s, j, limited)
      sep == SkipSpace(s, val.end)
      more == Append(items, val.val)
  IN IF val.err # "none" THEN val
     ELSE IF sep > Len(s) THEN Failed("JSONDecodeError")
     ELSE IF s[sep] = "]" THEN Scanned([t |-> "list", items |-> more], sep + 1)
     ELSE IF s[sep] # "," THEN Failed("JSONDecodeError")
     ELSE ScanElements(s, SkipSpace(s, sep + 1), more, limited)

\* json.loads: one value with white space around it and nothing after
Loads(s, limited) ==
  LET obj == ScanOnce(s, SkipSpace(s, 1), limited)
  IN IF obj.err # "none" THEN obj
     ELSE IF SkipSpace(s, obj.end) # Len(s) + 1 THEN Failed("JSONDecodeError")
     ELSE obj

\* sep.join(parts)
RECURSIVE Join(_, _)
Join(parts, sep) ==
  CASE parts = <<>> -> <<>>
    [] Len(parts) = 1 -> parts[1]
    [] OTHER -> parts[1] \o sep \o Join(Tail(parts), sep)

\* the characters of repr() of a str between its quotes
RECURSIVE Escaped(_)
Escaped(s) ==
  IF s = <<>> THEN <<>>
  ELSE (CASE s[1] = "\n" -> <<"\\", "n">>
          [] s[1] = "\\" -> <<"\\", "\\">>
          [] OTHER -> <<s[1]>>) \o Escaped(Tail(s))

\* repr(v) and str(v) of a parsed value: they differ for a str only
RECURSIVE PyRepr(_)
PyRepr(v) ==
  CASE v.t = "int" -> v.s
    [] v.t = "str" -> <<"'">> \o Escaped(v.s) \o <<"'">>
    [] v.t = "list" ->
         <<"[">> \o Join([i \in 1..Len(v.items) |-> PyRepr(v.items[i])], <<",", " ">>)
           \o <<"]">>
    [] v.t = "dict" ->
         <<"{">>
           \o Join([i \in 1..Len(v.items) |->
                      PyRepr([t |-> "str", s |-> v.items[i].key]) \o <<":", " ">>
                        \o PyRepr(v.items[i].val)],
                   <<",", " ">>)
           \o <<"}">>

PyStr(v) == IF v.t = "str" THEN v.s ELSE PyRepr(v)

\* s[:end]
SliceTo(s, end) ==
  LET stop == IF end < 0 THEN Len(s) + end ELSE end
  IN SubSeq(s, 1, IF stop > Len(s) THEN Len(s) ELSE IF stop < 0 THEN 0 ELSE stop)

\* s.replace("\n", " ")
NoNewLines(s) == [i \in 1..Len(s) |-> IF s[i] = "\n" THEN " " ELSE s[i]]

\* str(n) of a natural number
RECURSIVE Decimal(_)
Decimal(n) ==
  IF n < 10 THEN <<DigitChars[n + 1]>>
  ELSE Decimal(n \div 10) \o <<DigitChars[(n % 10) + 1]>>

\* `self.args_json[:60] + "..." if len(self.args_json) > 60 else self.args_json`
RawArgs(args_json) ==
  IF Len(args_json) > 60 THEN SliceTo(args_json, 60) \o <<".", ".", ".">> ELSE args_json

\* the summary of a parsed object
ArgsSummary(items, max_value_len) ==
  LET shown == SliceTo(items, 3)
      parts == [i \in 1..Len(shown) |->
                  LET val_str == NoNewLines(PyStr(shown[i].val))
                  IN shown[i].key \o <<"=">> \o
                       (IF Len(val_str) > max_value_len
                        THEN SliceTo(val_str, max_value_len - 3) \o <<".", ".", ".">>
                        ELSE val_str)]
      summary == Join(parts, <<",", " ">>)
  IN IF Len(items) > 3
     THEN summary \o <<" ", "(", "+">> \o Decimal(Len(items) - 3)
            \o <<" ", "m", "o", "r", "e", ")">>
     ELSE summary

\* format_args: what it returns, or the exception it raises; limited is
\* whether the interpreter limits the digits of an integer
FormatArgs(args_json, max_value_len, limited) ==
  LET args == Loads(args_json, limited)
  IN IF args_json = <<>> THEN [raised |-> "none", summary |-> <<>>]
     ELSE IF args.err = "JSONDecodeError"
     THEN [raised |-> "none", summary |-> RawArgs(args_json)]
     ELSE IF args.err # "none" THEN [raised |-> args.err, summary |-> <<>>]
     ELSE IF args.val.t = "dict"
     THEN [raised |-> "none", summary |-> ArgsSummary(args.val.items, max_value_len)]
     ELSE [raised |-> "none", summary |-> RawArgs(args_json)]

\* the default of max_value_len and the value send_message passes
MaxValueLens == {40, 50}

(***************************************************************************)
(* Argument texts: what the TOOL_CALL_ARGS deltas of a call can have       *)
(* accumulated to when format_args is called.                              *)
(***************************************************************************)
\* n times the character c
Rep(c, n) == [i \in 1..n |-> c]

\* five keys, white space between the tokens, a list and an object as values
NestedArgs ==
  <<"{", "\"", "k", "\"", ":", " ", "1", ",", " ", "\"", "x", "\"", ":", " ", "{", "\"",
    "k", "\"", ":", " ", "\"", "q", "\"", "}", ",", " ", "\"", "a", "\"", ":", " ", "[",
    "1", ",", " ", "\"", "x", "\"", "]", ",", " ", "\"", "q", "\"", ":", " ", "\"", "x",
    "\"", ",", " ", "\"", "k", "k", "\"", ":", " ", "2", "}">>

\* a key twice: three keys in the parsed object
RepeatedKeyArgs ==
  <<"{", "\"", "k", "\"", ":", "1", ",", "\"", "k", "\"", ":", "2", ",", "\"", "q", "\"",
    ":", "1", ",", "\"", "a", "\"", ":", "1", "}">>

\* four keys
FourKeyArgs ==
  <<"{", "\"", "k", "\"", ":", "1", ",", "\"", "q", "\"", ":", "2", ",", "\"", "a", "\"",
    ":", "3", ",", "\"", "x", "\"", ":", "4", "}">>

\* the escapes of a new line, a quote and a backslash in string values
EscapedArgs ==
  <<"{", "\"", "q", "\"", ":", "\"", "x", "\\", "n", "y", "\"", ",", "\"", "k", "\"",
    ":", "\"", "\\", "\"", "\\", "\\", "\"", "}">>

\* a string value longer than any max_value_len in use
LongValueArgs ==
  <<"{", "\"", "q", "\"", ":", "\"">> \o Rep("x", 55)
    \o <<"\"", ",", "\"", "k", "\"", ":", "1", "}">>

\* a list, valid JSON and no object, longer than 60 characters
LongListArgs == <<"[">> \o Rep("1", 61) \o <<"]">>

\* an integer of more digits than the interpreter converts, alone and as a value
HugeIntArgs == Rep("1", IntMaxStrDigits + 1)

HugeValueArgs == <<"{", "\"", "k", "\"", ":">> \o HugeIntArgs \o <<"}">>

\* texts that are no JSON, and JSON texts that are no object
OddArgs ==
  { <<"{", "\"", "k", "\"", ":", "1", ",", "}">>,
    <<"{", "\"", "k", "\"", ":", "1", "}", "x">>,
    <<"{", "\"", "k", "\"", ":", "\"", "\\", "q", "\"", "}">>,
    <<"{", "k", ":", "1", "}">>,
    <<"0", "1">>,
    <<"{", "\"", "k", "\"", ":", "0", "1", "}">>,
    <<" ", "{", "\"", "k", "\"", ":", "1", "}", " ">>,
    <<"{", "}">>,
    <<"[", "]">>,
    <<"\"", "x", "\"">>,
    <<"1", "2">>,
    <<"{", "\"", "k", "\"", ":", "\"", "x", "\n", "y", "\"", "}">>,
    <<"[", "1", ",", "]">>,
    <<"{", "\"", "k", "\"", " ", "1", "}">>,
    <<"0">> }

\* the texts a document passes through as its deltas accumulate
Prefixes(s) == {SubSeq(s, 1, n) : n \in 0..Len(s)}

ArgsTexts ==
  Prefixes(NestedArgs) \cup Prefixes(RepeatedKeyArgs) \cup Prefixes(FourKeyArgs)
    \cup Prefixes(EscapedArgs) \cup Prefixes(LongValueArgs) \cup Prefixes(LongListArgs)
    \cup OddArgs \cup {HugeIntArgs, HugeValueArgs}


(***************************************************************************)
(* State.                                                                  *)
(***************************************************************************)
VARIABLES
  eggs,               \* CodeAITux.eggs
  jupyter_url,        \* CodeAITux.jupyter_url
  commands,           \* CodeAITux.commands
  stats,              \* CodeAITux.stats
  running,            \* CodeAITux.running
  model_name,         \* CodeAITux.model_name
  context_window,     \* CodeAITux.context_window
  tool_calls,         \* CodeAITux.tool_calls
  agui_client,        \* CodeAITux._agui_client: NoClient or the client object
  current_tool_call,  \* local of send_message
  response_text,      \* local of send_message
  pc,                 \* where run() is: "init", "prompt", "thinking", "render", "stream",
                      \* "usage", "done", "crashed"; where the caller of a Spinner
                      \* is: "spinner", "spinning", "joining", "stopped"; where
                      \* _run_single_query_ag_ui is: "query", "events", "joining",
                      \* "exit", "returned", "raised"
  clients,            \* number of AGUIClient objects created so far
  connected,          \* the AGUIClient objects whose connection is open
  turns,              \* number of send_message invocations so far
  last,               \* what the last step did: the input, event or reply it handled
  terminal,           \* the terminal event the loop of the current turn has consumed
  before,             \* the session when the current turn began
  proto,              \* what the stream of the current turn has carried so far
  thinking,           \* whether the "Thinking..." status is animating on the terminal
  spinner             \* the Spinner object of cli.py and its animation thread

vars ==
  <<eggs, jupyter_url, commands, stats, running, model_name, context_window, tool_calls,
    agui_client, current_tool_call, response_text, pc, clients, connected, turns,
    last, terminal, before, proto, thinking, spinner>>

config == <<eggs, jupyter_url, commands>>

turn == <<tool_calls, current_tool_call, response_text>>

connection == <<agui_client, clients, connected>>

metadata == <<model_name, context_window>>

(***************************************************************************)
(* Record of the stream of one turn: per tool-call id how far its          *)
(* lifecycle has come and the argument text sent for it, and whether the   *)
(* ordering guarantee has held so far: an id starts once; its args-delta   *)
(* and end events come after its start and before its end; its result      *)
(* comes after its end, once.                                              *)
(***************************************************************************)
NewProto ==
  [ok |-> TRUE, life |-> [i \in ToolCallIds |-> "new"],
   sent |-> [i \in ToolCallIds |-> <<>>]]

\* nothing more is recorded of a stream that has broken the guarantee
BrokenProto == [NewProto EXCEPT !.ok = FALSE]

ArgsSent(p) == Len(p.sent["t1"]) + Len(p.sent["t2"])

Observe(p, ev) ==
  LET step(from, to) ==
        IF p.ok /\ p.life[IdOf(ev)] = from
        THEN [p EXCEPT !.life[IdOf(ev)] = to]
        ELSE BrokenProto
  IN CASE ev.type = "TOOL_CALL_START" -> step("new", "started")
       [] ev.type = "TOOL_CALL_ARGS" ->
            IF step("started", "started").ok
            THEN [p EXCEPT !.sent[IdOf(ev)] = @ \o OrElse(ev.tool_args, <<>>)]
            ELSE BrokenProto
       [] ev.type = "TOOL_CALL_END" -> step("started", "ended")
       [] ev.type = "TOOL_CALL_RESULT" -> step("ended", "resulted")
       [] OTHER -> p

\* no turn is running
\* no Spinner object: the interactive session constructs none
NoSpinner == [style |-> "none"]

NoTurn == [stats |-> NewSessionStats, agui_client |-> NoClient, tool_calls |-> <<>>]

(***************************************************************************)
(* send_message: the branches of the event loop.                           *)
(***************************************************************************)
\* a variant that keeps the latest delta only
OnTextMessageContent_Latest(ev) ==
  /\ response_text' = OrElse(ev.delta, <<>>)
  /\ UNCHANGED <<tool_calls, current_tool_call, stats>>

\* EventType.TEXT_MESSAGE_CONTENT
OnTextMessageContent(ev) ==
  /\ response_text' = response_text \o OrElse(ev.delta, <<>>)
  /\ UNCHANGED <<tool_calls, current_tool_call, stats>>

\* `tool_num = len(self.tool_calls)`, taken after the append: the ordinal shown
ToolNum(tcs) == Len(tcs)

\* a variant that puts the new call in front of the list
OnToolCallStart_InFront(ev) ==
  /\ tool_calls' = <<NewToolCallInfo(IdOf(ev), NameOf(ev))>> \o tool_calls
  /\ current_tool_call' = 1
  /\ stats' = [stats EXCEPT !.tool_calls = @ + 1]
  /\ UNCHANGED response_text

\* a variant that does not count the call in the stats
OnToolCallStart_Uncounted(ev) ==
  /\ tool_calls' = Append(tool_calls, NewToolCallInfo(IdOf(ev), NameOf(ev)))
  /\ current_tool_call' = Len(tool_calls) + 1
  /\ UNCHANGED <<response_text, stats>>

\* EventType.TOOL_CALL_START
OnToolCallStart(ev) ==
  /\ tool_calls' = Append(tool_calls, NewToolCallInfo(IdOf(ev), NameOf(ev)))
  /\ current_tool_call' = Len(tool_calls) + 1
  /\ stats' = [stats EXCEPT !.tool_calls = @ + 1]
  /\ UNCHANGED response_text

\* a variant that appends the delta to the first call with the id of the event
OnToolCallArgs_ById(ev) ==
  LET same == {i \in 1..Len(tool_calls) : tool_calls[i].tool_call_id = IdOf(ev)}
      found == CHOOSE i \in same : \A j \in same : i <= j
  IN /\ tool_calls' =
          IF same # {}
          THEN [tool_calls EXCEPT ![found].args_json = @ \o OrElse(ev.tool_args, <<>>)]
          ELSE tool_calls
     /\ UNCHANGED <<current_tool_call, response_text, stats>>

\* EventType.TOOL_CALL_ARGS
OnToolCallArgs(ev) ==
  /\ tool_calls' =
       IF current_tool_call # NoToolCall
       THEN [tool_calls EXCEPT
               ![current_tool_call].args_json = @ \o OrElse(ev.tool_args, <<>>)]
       ELSE tool_calls
  /\ UNCHANGED <<current_tool_call, response_text, stats>>

\* a variant that takes the end of the arguments for the completion of the call
OnToolCallEnd_Completes(ev) ==
  /\ tool_calls' =
       IF current_tool_call # NoToolCall
       THEN [tool_calls EXCEPT ![current_tool_call].status = "complete"]
       ELSE tool_calls
  /\ UNCHANGED <<current_tool_call, response_text, stats>>

\* EventType.TOOL_CALL_END: only prints the summary of the arguments
OnToolCallEnd(ev) ==
  UNCHANGED <<tool_calls, current_tool_call, response_text, stats>>

\* `for tc in self.tool_calls: if tc.tool_call_id == tool_call_id: ... break`:
\* the position of the first record with that id, NoToolCall if there is none
FirstWithId(tcs, id) ==
  IF \E i \in 1..Len(tcs) : tcs[i].tool_call_id = id
  THEN CHOOSE i \in 1..Len(tcs) :
         /\ tcs[i].tool_call_id = id
         /\ \A j \in 1..(i - 1) : tcs[j].tool_call_id # id
  ELSE NoToolCall

\* `result = event.tool_result or ""`, `str(result) if result else ""`
ResultText(ev) == OrElse(ev.tool_result, <<>>)

\* a variant that completes the in-flight call instead of the call with the id
OnToolCallResult_InFlight(ev) ==
  /\ tool_calls' =
       IF current_tool_call # NoToolCall
       THEN [tool_calls EXCEPT ![current_tool_call].result = Some(ResultText(ev)),
                               ![current_tool_call].status = "complete"]
       ELSE tool_calls
  /\ current_tool_call' = NoToolCall
  /\ UNCHANGED <<response_text, stats>>

\* a variant that records a result with an unknown id as a new, complete call
OnToolCallResult_Recorded(ev) ==
  LET found == FirstWithId(tool_calls, IdOf(ev))
  IN /\ tool_calls' =
          IF found # NoToolCall
          THEN [tool_calls EXCEPT ![found].result = Some(ResultText(ev)),
                                  ![found].status = "complete"]
          ELSE Append(tool_calls,
                      [NewToolCallInfo(IdOf(ev), "tool") EXCEPT
                         !.result = Some(ResultText(ev)), !.status = "complete"])
     /\ current_tool_call' = NoToolCall
     /\ UNCHANGED <<response_text, stats>>

\* a variant that keeps the in-flight call after its result
OnToolCallResult_StillInFlight(ev) ==
  LET found == FirstWithId(tool_calls, IdOf(ev))
  IN /\ tool_calls' =
          IF found # NoToolCall
          THEN [tool_calls EXCEPT ![found].result = Some(ResultText(ev)),
                                  ![found].status = "complete"]
          ELSE tool_calls
     /\ UNCHANGED <<current_tool_call, response_text, stats>>

\* EventType.TOOL_CALL_RESULT
OnToolCallResult(ev) ==
  LET found == FirstWithId(tool_calls, IdOf(ev))
  IN /\ tool_calls' =
          IF found # NoToolCall
          THEN [tool_calls EXCEPT ![found].result = Some(ResultText(ev)),
                                  ![found].status = "complete"]
          ELSE tool_calls
     /\ current_tool_call' = NoToolCall
     /\ UNCHANGED <<response_text, stats>>

\* EventType.RUN_FINISHED
OnRunFinished(ev) ==
  UNCHANGED <<tool_calls, current_tool_call, response_text, stats>>

\* a variant that leaves the in-flight call as it is
OnRunError_Unmarked(ev) ==
  UNCHANGED <<tool_calls, current_tool_call, response_text, stats>>

\* EventType.RUN_ERROR
OnRunError(ev) ==
  /\ tool_calls' =
       IF current_tool_call # NoToolCall
       THEN [tool_calls EXCEPT ![current_tool_call].status = "error"]
       ELSE tool_calls
  /\ UNCHANGED <<current_tool_call, response_text, stats>>

\* a variant in which RUN_FINISHED does not leave the loop
Breaks_OnErrorOnly(ev) == ev.type = "RUN_ERROR"

\* the branches that end with `break`
Breaks(ev) == ev.type \in {"RUN_FINISHED", "RUN_ERROR"}

\* the if/elif chain on event.type; an event of another type falls through
Dispatch(ev) ==
  CASE ev.type = "TEXT_MESSAGE_CONTENT" -> OnTextMessageContent(ev)
    [] ev.type = "TOOL_CALL_START" -> OnToolCallStart(ev)
    [] ev.type = "TOOL_CALL_ARGS" -> OnToolCallArgs(ev)
    [] ev.type = "TOOL_CALL_END" -> OnToolCallEnd(ev)
    [] ev.type = "TOOL_CALL_RESULT" -> OnToolCallResult(ev)
    [] ev.type = "RUN_FINISHED" -> OnRunFinished(ev)
    [] ev.type = "RUN_ERROR" -> OnRunError(ev)
    [] OTHER -> UNCHANGED <<tool_calls, current_tool_call, response_text, stats>>

\* what the stream of the current turn has carried so far
Streamed ==
  LET kept == SumLen([i \in 1..Len(tool_calls) |-> tool_calls[i].args_json])
  IN Len(tool_calls) + Len(response_text)
       + (IF ArgsSent(proto) > kept THEN ArgsSent(proto) ELSE kept)

\* what an event adds to it
Carries(ev) ==
  CASE ev.type = "TOOL_CALL_START" -> 1
    [] ev.type = "TOOL_CALL_ARGS" -> Len(OrElse(ev.tool_args, <<>>))
    [] ev.type = "TEXT_MESSAGE_CONTENT" -> Len(OrElse(ev.delta, <<>>))
    [] OTHER -> 0

\* the events the bound of the model lets the stream carry next
WithinBounds(ev, bound) == Streamed + Carries(ev) <= bound

\* send_message returns: its locals, and what was recorded of the turn, are gone
Return ==
  /\ current_tool_call' = NoToolCall
  /\ terminal' = "none"
  /\ before' = NoTurn
  /\ proto' = NewProto

\* one iteration of `async for event in client.run(message)`
StreamEvent(events, bound) ==
  /\ pc = "stream"
  /\ \E ev \in events :
       /\ WithinBounds(ev, bound)
       /\ Dispatch(ev)
       /\ last' = [op |-> "event", event |-> ev]
       /\ proto' = Observe(proto, ev)
       /\ terminal' = IF ev.type \in {"RUN_FINISHED", "RUN_ERROR"} THEN ev.type ELSE terminal
       /\ pc' = IF Breaks(ev) THEN "usage" ELSE "stream"
  /\ UNCHANGED <<config, spinner, running, metadata, connection, turns, before, thinking>>

\* the stream ends without a terminal event: the loop ends normally
StreamExhausted ==
  /\ pc = "stream"
  /\ pc' = "usage"
  /\ last' = [op |-> "exhausted"]
  /\ UNCHANGED <<config, spinner, stats, running, metadata, turn, connection, turns, terminal,
                 before, proto, thinking>>

\* client.run raises: `except ConnectionRefusedError` / `except Exception`
\* print the error and send_message returns
StreamRaises ==
  /\ pc = "stream"
  /\ pc' = "prompt"
  /\ last' = [op |-> "raised"]
  /\ Return
  /\ UNCHANGED <<config, spinner, stats, running, metadata, tool_calls, response_text,
                 connection, turns, thinking>>

\* after the loop: the summary line, then the usage snapshot and the stats
FetchUsage(replies) ==
  /\ pc = "usage"
  /\ \E reply \in replies :
       LET ok == reply.status = 200
           data == reply.data[1]
           input_tokens == IF ok THEN GetOr(data.sumResponseInputTokens, 0) ELSE 0
           output_tokens == IF ok THEN GetOr(data.sumResponseOutputTokens, 0) ELSE 0
       IN /\ stats' = [stats EXCEPT !.total_input_tokens = input_tokens,
                                    !.total_output_tokens = output_tokens]
          /\ model_name' =
               IF ok THEN StrOr(Some(GetOr(data.modelName, model_name)), model_name)
               ELSE model_name
          /\ context_window' =
               IF ok THEN GetOr(data.contextWindow, context_window) ELSE context_window
          /\ last' = [op |-> "usage", status |-> reply.status]
  /\ pc' = "prompt"
  /\ Return
  /\ UNCHANGED <<config, spinner, running, tool_calls, response_text, connection, turns, thinking>>

(***************************************************************************)
(* send_message up to the event loop.                                      *)
(***************************************************************************)
\* the outcomes of AGUIClient.connect(): it returns, or raises
\* ConnectionRefusedError or another exception
ConnectOutcomes == {"ok", "refused", "error"}

\* the outcomes of AGUIClient.disconnect(): it returns or raises
DisconnectOutcomes == {"ok", "error"}

\* a variant that connects anew for every message
Connect_EveryMessage(outcome) ==
  /\ clients' = clients + 1
  /\ agui_client' = clients + 1
  /\ connected' = IF outcome = "ok" THEN connected \cup {clients + 1} ELSE connected

\* `if self._agui_client is None: self._agui_client = AGUIClient(...);
\*  await self._agui_client.connect()`
Connect(outcome) ==
  IF agui_client = NoClient
  THEN /\ clients' = clients + 1
       /\ agui_client' = clients + 1
       /\ connected' = IF outcome = "ok" THEN connected \cup {clients + 1} ELSE connected
  ELSE UNCHANGED connection

ConnectRaised(outcome) == agui_client = NoClient /\ outcome # "ok"

\* a variant that keeps the tool calls of the turn before
SendMessage_Keeping(message, outcome) ==
  /\ turns < MaxTurns
  /\ turns' = turns + 1
  /\ stats' = [stats EXCEPT !.messages = @ + 1]
  /\ tool_calls' = tool_calls
  /\ response_text' = <<>>
  /\ Connect(outcome)
  /\ last' = [op |-> "message", text |-> message,
              connect |-> IF agui_client = NoClient THEN outcome ELSE "not called"]
  /\ thinking' = ~ConnectRaised(outcome)
  /\ IF ConnectRaised(outcome)
     THEN pc' = "prompt" /\ Return
     ELSE /\ pc' = "thinking"
          /\ current_tool_call' = NoToolCall
          /\ terminal' = "none"
          /\ before' = [stats |-> stats, agui_client |-> agui_client,
                        tool_calls |-> tool_calls]
          /\ proto' = NewProto
  /\ UNCHANGED <<config, spinner, running, metadata>>

SendMessage(message, outcome) ==
  /\ turns < MaxTurns
  /\ turns' = turns + 1
  /\ stats' = [stats EXCEPT !.messages = @ + 1]
  /\ tool_calls' = <<>>
  /\ response_text' = <<>>
  /\ Connect(outcome)
  /\ last' = [op |-> "message", text |-> message,
              connect |-> IF agui_client = NoClient THEN outcome ELSE "not called"]
  /\ thinking' = ~ConnectRaised(outcome)
  /\ IF ConnectRaised(outcome)
     THEN pc' = "prompt" /\ Return
     ELSE /\ pc' = "thinking"
          /\ current_tool_call' = NoToolCall
          /\ terminal' = "none"
          /\ before' = [stats |-> stats, agui_client |-> agui_client,
                        tool_calls |-> tool_calls]
          /\ proto' = NewProto
  /\ UNCHANGED <<config, spinner, running, metadata>>

\* a variant in which the status keeps animating after its block
StopThinking_Animating ==
  /\ pc = "thinking"
  /\ pc' = "render"
  /\ last' = [op |-> "status"]
  /\ UNCHANGED <<config, spinner, stats, running, metadata, turn, connection, turns, terminal,
                 before, proto, thinking>>

\* the end of `with self.console.status(...): await asyncio.sleep(0.1)`: the
\* status is stopped as its block is left
StopThinking ==
  /\ pc = "thinking"
  /\ thinking' = FALSE
  /\ pc' = "render"
  /\ last' = [op |-> "status"]
  /\ UNCHANGED <<config, spinner, stats, running, metadata, turn, connection, turns, terminal,
                 before, proto>>

\* `self.console.print(); self.console.print("● ", ...)`: the response bullet,
\* then the loop over the events begins
PrintBullet ==
  /\ pc = "render"
  /\ pc' = "stream"
  /\ last' = [op |-> "bullet"]
  /\ UNCHANGED <<config, spinner, stats, running, metadata, turn, connection, turns, terminal,
                 before, proto, thinking>>

(***************************************************************************)
(* Command handlers.  A handler that raises leaves run() by the exception: *)
(* the loop of run() catches KeyboardInterrupt and EOFError only.          *)
(***************************************************************************)
\* `if self._agui_client is not None: await self._agui_client.disconnect();
\*  self._agui_client = None`; a disconnect that raises closes nothing
Disconnect(outcome) ==
  IF agui_client # NoClient /\ outcome = "ok"
  THEN /\ connected' = connected \ {agui_client}
       /\ agui_client' = NoClient
       /\ UNCHANGED clients
  ELSE UNCHANGED connection

DisconnectRaised(outcome) == agui_client # NoClient /\ outcome # "ok"

\* what is recorded of a disconnect
Disconnected(outcome) == IF agui_client # NoClient THEN outcome ELSE "not called"

\* the replies to the POST of _cmd_clear: an exception or error status, or 200
ResetReplies == HttpFailure \cup [status : {200}, data : {Absent}]

\* a variant that drops the connection also when the reset request fails
CmdClear_Dropping(line, reset, outcome) ==
  /\ Disconnect(outcome)
  /\ stats' = IF DisconnectRaised(outcome) \/ reset.status # 200 THEN stats
              ELSE NewSessionStats
  /\ pc' = IF DisconnectRaised(outcome) THEN "crashed" ELSE "prompt"
  /\ last' = [op |-> "command", line |-> line, handler |-> "_cmd_clear",
              reset |-> reset.status, disconnect |-> Disconnected(outcome)]
  /\ UNCHANGED running

\* _cmd_clear
CmdClear(line, reset, outcome) ==
  IF reset.status # 200
  THEN /\ UNCHANGED <<connection, stats, running>>
       /\ pc' = "prompt"
       /\ last' = [op |-> "command", line |-> line, handler |-> "_cmd_clear",
                   reset |-> reset.status, disconnect |-> "not called"]
  ELSE /\ Disconnect(outcome)
       /\ stats' = IF DisconnectRaised(outcome) THEN stats ELSE NewSessionStats
       /\ pc' = IF DisconnectRaised(outcome) THEN "crashed" ELSE "prompt"
       /\ last' = [op |-> "command", line |-> line, handler |-> "_cmd_clear",
                   reset |-> reset.status, disconnect |-> Disconnected(outcome)]
       /\ UNCHANGED running

\* _cmd_exit
CmdExit(line, outcome) ==
  /\ running' = FALSE
  /\ Disconnect(outcome)
  /\ pc' = IF DisconnectRaised(outcome) THEN "crashed" ELSE "done"
  /\ last' = [op |-> "command", line |-> line, handler |-> "_cmd_exit",
              disconnect |-> Disconnected(outcome)]
  /\ UNCHANGED stats

\* a variant that counts the line as a message
CmdOther_Counted(line, handler) ==
  /\ pc' = "prompt"
  /\ last' = [op |-> "command", line |-> line, handler |-> handler]
  /\ stats' = [stats EXCEPT !.messages = @ + 1]
  /\ UNCHANGED <<connection, running>>

\* the handlers that read or print and change nothing of the session, and
\* the notice for an unknown command
CmdOther(line, handler) ==
  /\ pc' = "prompt"
  /\ last' = [op |-> "command", line |-> line, handler |-> handler]
  /\ UNCHANGED <<connection, stats, running>>

\* the outcomes a disconnect can have here: one, when none is called
Outcomes == IF agui_client = NoClient THEN {"ok"} ELSE DisconnectOutcomes

\* handle_command; the reply and the outcome are those of the calls the handler makes
HandleCommand(user_input) ==
  LET cmd_name == CommandName(user_input)
      handler == IF cmd_name \in DOMAIN commands
                 THEN commands[cmd_name].handler ELSE "unknown command"
  IN CASE handler = "_cmd_clear" ->
            \E reset \in ResetReplies, outcome \in Outcomes :
              CmdClear(user_input, reset, outcome)
       [] handler = "_cmd_exit" -> \E outcome \in Outcomes : CmdExit(user_input, outcome)
       [] OTHER -> CmdOther(user_input, handler)

(***************************************************************************)
(* run(): the start and the read loop.                                     *)
(***************************************************************************)
\* show_prompt: the line run() gets for what prompt_async delivers
ShowPrompt(input) ==
  CASE input.kind = "eof" -> <<"/", "e", "x", "i", "t">>
    [] input.kind = "interrupt" -> <<>>
    [] OTHER -> Strip(input.text)

\* a variant that falls back to the default model name when the fetch fails
RunStart_Defaulting(replies) ==
  /\ pc = "init"
  /\ running' = TRUE
  /\ \E reply \in replies :
       /\ IF reply.status = 200
          THEN /\ model_name' = StrOr(reply.data[1].modelName, "claude-sonnet-4")
               /\ context_window' = GetOr(reply.data[1].contextWindow, 128000)
          ELSE /\ model_name' = "claude-sonnet-4"
               /\ context_window' = context_window
       /\ last' = [op |-> "start", status |-> reply.status]
  /\ pc' = "prompt"
  /\ UNCHANGED <<config, spinner, stats, turn, connection, turns, terminal, before, proto,
                 thinking>>

\* run() before the loop: running = True and the initial snapshot
RunStart(replies) ==
  /\ pc = "init"
  /\ running' = TRUE
  /\ \E reply \in replies :
       /\ IF reply.status = 200
          THEN /\ model_name' = StrOr(reply.data[1].modelName, "claude-sonnet-4")
               /\ context_window' = GetOr(reply.data[1].contextWindow, 128000)
          ELSE UNCHANGED metadata
       /\ last' = [op |-> "start", status |-> reply.status]
  /\ pc' = "prompt"
  /\ UNCHANGED <<config, spinner, stats, turn, connection, turns, terminal, before, proto,
                 thinking>>

\* a variant that counts an empty line as a message
LoopEmpty_Counted(inputs) ==
  /\ pc = "prompt" /\ running
  /\ \E input \in inputs :
       /\ ShowPrompt(input) = <<>>
       /\ last' = [op |-> "empty", input |-> input]
  /\ stats' = [stats EXCEPT !.messages = @ + 1]
  /\ UNCHANGED <<config, spinner, running, metadata, turn, connection, pc, turns,
                 terminal, before, proto, thinking>>

\* `if not user_input: continue`
LoopEmpty(inputs) ==
  /\ pc = "prompt" /\ running
  /\ \E input \in inputs :
       /\ ShowPrompt(input) = <<>>
       /\ last' = [op |-> "empty", input |-> input]
  /\ UNCHANGED <<config, spinner, stats, running, metadata, turn, connection, pc, turns,
                 terminal, before, proto, thinking>>

\* a variant in which a command forgets the tool calls of the last turn
LoopCommand_Forgetting(inputs) ==
  /\ pc = "prompt" /\ running
  /\ \E input \in inputs :
       /\ StartsWithSlash(ShowPrompt(input))
       /\ HandleCommand(ShowPrompt(input))
  /\ tool_calls' = <<>>
  /\ UNCHANGED <<config, spinner, metadata, current_tool_call, response_text, turns, terminal,
                 before, proto, thinking>>

\* `if user_input.startswith("/"): await self.handle_command(user_input)`
LoopCommand(inputs) ==
  /\ pc = "prompt" /\ running
  /\ \E input \in inputs :
       /\ StartsWithSlash(ShowPrompt(input))
       /\ HandleCommand(ShowPrompt(input))
  /\ UNCHANGED <<config, spinner, metadata, turn, turns, terminal, before, proto, thinking>>

\* a variant that takes the next message while the events of a turn arrive
LoopMessage_Eager(inputs) ==
  /\ pc \in {"prompt", "stream"} /\ running
  /\ \E input \in inputs, outcome \in ConnectOutcomes :
       /\ ShowPrompt(input) # <<>>
       /\ ~StartsWithSlash(ShowPrompt(input))
       /\ SendMessage(ShowPrompt(input), outcome)

\* `else: await self.send_message(user_input)`
LoopMessage(inputs) ==
  /\ pc = "prompt" /\ running
  /\ \E input \in inputs, outcome \in ConnectOutcomes :
       /\ ShowPrompt(input) # <<>>
       /\ ~StartsWithSlash(ShowPrompt(input))
       /\ SendMessage(ShowPrompt(input), outcome)

\* a turn is under way: send_message has connected and has not returned
InTurn == pc \in {"thinking", "render", "stream", "usage"}

\* KeyboardInterrupt inside send_message: neither `except` of send_message
\* nor that of the usage query catches it, the status block is left, and
\* `except KeyboardInterrupt` of run() awaits _cmd_exit
InterruptTurn ==
  /\ InTurn /\ running
  /\ \E outcome \in Outcomes :
       /\ running' = FALSE
       /\ Disconnect(outcome)
       /\ pc' = IF DisconnectRaised(outcome) THEN "crashed" ELSE "done"
       /\ last' = [op |-> "interrupt", at |-> pc, disconnect |-> Disconnected(outcome)]
  /\ thinking' = FALSE
  /\ Return
  /\ UNCHANGED <<config, spinner, stats, metadata, tool_calls, response_text, turns>>

\* the first message of the session
FirstMessage == turns = 0 /\ LoopMessage(PromptInputs)

Init ==
  /\ eggs = FALSE
  /\ jupyter_url = Absent
  /\ commands = RegisterCommands(eggs, jupyter_url)
  /\ stats = NewSessionStats
  /\ running = FALSE
  /\ model_name = "unknown"
  /\ context_window = 128000
  /\ tool_calls = <<>>
  /\ agui_client = NoClient
  /\ current_tool_call = NoToolCall
  /\ response_text = <<>>
  /\ pc = "init"
  /\ clients = 0
  /\ connected = {}
  /\ turns = 0
  /\ last = [op |-> "none"]
  /\ terminal = "none"
  /\ before = NoTurn
  /\ proto = NewProto
  /\ thinking = FALSE
  /\ spinner = NoSpinner

\* the session: a line of every kind, every reply, streams of plain events
Next ==
  \/ RunStart(SnapshotReplies)
  \/ LoopEmpty(SessionInputs)
  \/ LoopCommand(SessionInputs)
  \/ LoopMessage(SessionInputs)
  \/ StopThinking
  \/ PrintBullet
  \/ StreamEvent(PlainEvents, MaxSessionStream)
  \/ StreamExhausted
  \/ StreamRaises
  \/ FetchUsage(SnapshotReplies)

Spec == Init /\ [][Next]_vars

\* the first turn: streams of every event, with the snapshot service unavailable
TurnNext ==
  \/ RunStart(HttpFailure)
  \/ FirstMessage
  \/ StopThinking
  \/ PrintBullet
  \/ StreamEvent(Events, MaxStream)
  \/ StreamExhausted
  \/ StreamRaises
  \/ FetchUsage(HttpFailure)

TurnSpec == Init /\ [][TurnNext]_vars

\* the options CodeAITux is constructed with: eggs, and jupyter_url None, "" or a URL
JupyterUrls == {Absent, Some(<<>>), Some(<<"u">>)}

ConfigInit ==
  /\ eggs \in BOOLEAN
  /\ jupyter_url \in JupyterUrls
  /\ commands = RegisterCommands(eggs, jupyter_url)
  /\ stats = NewSessionStats
  /\ running = FALSE
  /\ model_name = "unknown"
  /\ context_window = 128000
  /\ tool_calls = <<>>
  /\ agui_client = NoClient
  /\ current_tool_call = NoToolCall
  /\ response_text = <<>>
  /\ pc = "init"
  /\ clients = 0
  /\ connected = {}
  /\ turns = 0
  /\ last = [op |-> "none"]
  /\ terminal = "none"
  /\ before = NoTurn
  /\ proto = NewProto
  /\ thinking = FALSE
  /\ spinner = NoSpinner

\* every construction of the session: the commands in any order around one message
ConfigNext ==
  \/ RunStart(HttpFailure)
  \/ LoopEmpty(PromptInputs)
  \/ LoopCommand(PromptInputs)
  \/ FirstMessage
  \/ StopThinking
  \/ PrintBullet
  \/ StreamEvent(PlainEvents, MaxSessionStream)
  \/ StreamExhausted
  \/ StreamRaises
  \/ FetchUsage(HttpFailure)

ConfigSpec == ConfigInit /\ [][ConfigNext]_vars

\* format_args on its own: a call in flight with any of the argument texts
FormatInit ==
  /\ eggs = FALSE
  /\ jupyter_url = Absent
  /\ commands = RegisterCommands(eggs, jupyter_url)
  /\ stats = NewSessionStats
  /\ running = FALSE
  /\ model_name = "unknown"
  /\ context_window = 128000
  /\ \E text \in ArgsTexts :
       tool_calls = <<[NewToolCallInfo("t1", "search") EXCEPT !.args_json = text]>>
  /\ agui_client = NoClient
  /\ current_tool_call = 1
  /\ response_text = <<>>
  /\ pc = "format"
  /\ clients = 0
  /\ connected = {}
  /\ turns = 0
  /\ last = [op |-> "none"]
  /\ terminal = "none"
  /\ before = NoTurn
  /\ proto = NewProto
  /\ thinking = FALSE
  /\ spinner = NoSpinner

\* `args_summary = current_tool_call.format_args(max_value_len=50)`, and the
\* call with the default; the interpreter limits the digits of an integer or not
CallFormatArgs ==
  /\ pc = "format"
  /\ \E max_value_len \in MaxValueLens, limited \in BOOLEAN :
       LET out == FormatArgs(tool_calls[current_tool_call].args_json, max_value_len,
                             limited)
       IN last' = [op |-> "format_args", max_value_len |-> max_value_len,
                   raised |-> out.raised, summary |-> out.summary]
  /\ pc' = "formatted"
  /\ UNCHANGED <<config, spinner, stats, running, metadata, turn, connection, turns, terminal,
                 before, proto, thinking>>

FormatNext == CallFormatArgs

FormatSpec == FormatInit /\ [][FormatNext]_vars

\* one message, interrupted at any point of its turn or not at all
InterruptNext ==
  \/ RunStart(HttpFailure)
  \/ FirstMessage
  \/ StopThinking
  \/ PrintBullet
  \/ StreamEvent(PlainEvents, MaxSessionStream)
  \/ StreamExhausted
  \/ StreamRaises
  \/ FetchUsage(HttpFailure)
  \/ InterruptTurn

InterruptSpec == Init /\ [][InterruptNext]_vars

(***************************************************************************)
(* cli.py: the Spinner and its animation thread.                           *)
(***************************************************************************)
\* the frames, as code points
SPINNER_DOTS == <<10251, 10265, 10297, 10296, 10300, 10292, 10278, 10279, 10247, 10255>>

SPINNER_CIRCLE == <<9680, 9683, 9681, 9682>>

SPINNER_BOUNCE == <<10241, 10242, 10244, 10304, 10368, 10272, 10256, 10248>>

SPINNER_PULSE == <<9679, 9673, 9675, 9673>>

SPINNER_GROWING_CIRCLE == <<9675, 9684, 9681, 9685, 9679, 9685, 9681, 9684>>

\* the styles of test_spinner, and one that __init__ does not know
Styles == {"dots", "circle", "bounce", "pulse", "growing", "square"}

\* Spinner.__init__: the frames of the style
Frames(style) ==
  IF style = "dots" THEN SPINNER_DOTS
  ELSE IF style = "circle" THEN SPINNER_CIRCLE
  ELSE IF style = "bounce" THEN SPINNER_BOUNCE
  ELSE IF style = "pulse" THEN SPINNER_PULSE
  ELSE IF style = "growing" THEN SPINNER_GROWING_CIRCLE
  ELSE SPINNER_CIRCLE

\* what the spinner line of the terminal shows when it is not a frame
Untouched == 0
Blank == 1

\* Spinner.__init__. spinner_thread is "none" for None and otherwise where
\* the thread is in _spin: "check" before the test of spinner_active, "write"
\* after it has passed, "clear" after the loop, "exited". frame is the
\* position of itertools.cycle. isatty is what sys.stdout.isatty() answers;
\* line is what the spinner line shows; stops counts the stop() calls that
\* have returned; then is where the caller goes on when stop() returns.
NewSpinner(style, isatty) ==
  [style |-> style, frames |-> Frames(style), spinner_active |-> FALSE,
   spinner_thread |-> "none", frame |-> 1, isatty |-> isatty, line |-> Untouched,
   stops |-> 0, then |-> "none"]

\* Spinner.start
Start(sp) ==
  IF ~sp.isatty THEN sp
  ELSE [sp EXCEPT !.spinner_active = TRUE, !.spinner_thread = "check"]

\* Spinner.stop up to the join: the flag is cleared and the caller waits
BeginStop(sp, then) == [sp EXCEPT !.spinner_active = FALSE, !.then = then]

\* `if self.spinner_thread: self.spinner_thread.join()` lets the caller go on
Joined(sp) == sp.spinner_thread \in {"none", "exited"}

\* _spin: `if not self.spinner_active: break`
SpinCheck ==
  /\ spinner.spinner_thread = "check"
  /\ spinner' = [spinner EXCEPT
                   !.spinner_thread = IF spinner.spinner_active THEN "write" ELSE "clear"]

\* _spin: the frame is written, the thread sleeps and takes the next frame
SpinWrite ==
  /\ spinner.spinner_thread = "write"
  /\ spinner' = [spinner EXCEPT
                   !.line = spinner.frames[spinner.frame],
                   !.frame = (spinner.frame % Len(spinner.frames)) + 1,
                   !.spinner_thread = "check"]

\* _spin: the line is cleared and the thread ends
SpinClear ==
  /\ spinner.spinner_thread = "clear"
  /\ spinner' = [spinner EXCEPT !.line = Blank, !.spinner_thread = "exited"]

\* a step of the animation thread
Spin ==
  /\ spinner # NoSpinner
  /\ SpinCheck \/ SpinWrite \/ SpinClear
  /\ UNCHANGED <<config, stats, running, metadata, turn, connection, pc, turns, last,
                 terminal, before, proto, thinking>>

\* a variant of stop() that does not wait for the thread
JoinThread_NotWaiting ==
  /\ pc = "joining"
  /\ pc' = spinner.then
  /\ spinner' = [spinner EXCEPT !.stops = @ + 1]
  /\ UNCHANGED <<config, stats, running, metadata, turn, connection, turns, last,
                 terminal, before, proto, thinking>>

\* stop() returns: there is no thread, or join() has seen it end
JoinThread ==
  /\ pc = "joining"
  /\ Joined(spinner)
  /\ pc' = spinner.then
  /\ spinner' = [spinner EXCEPT !.stops = @ + 1]
  /\ UNCHANGED <<config, stats, running, metadata, turn, connection, turns, last,
                 terminal, before, proto, thinking>>

(***************************************************************************)
(* test_spinner: start(), sleep, stop(), and stop() again.                 *)
(***************************************************************************)
MaxStops == 2

SpinnerInit ==
  /\ eggs = FALSE
  /\ jupyter_url = Absent
  /\ commands = RegisterCommands(eggs, jupyter_url)
  /\ stats = NewSessionStats
  /\ running = FALSE
  /\ model_name = "unknown"
  /\ context_window = 128000
  /\ tool_calls = <<>>
  /\ agui_client = NoClient
  /\ current_tool_call = NoToolCall
  /\ response_text = <<>>
  /\ pc = "spinner"
  /\ clients = 0
  /\ connected = {}
  /\ turns = 0
  /\ last = [op |-> "none"]
  /\ terminal = "none"
  /\ before = NoTurn
  /\ proto = NewProto
  /\ thinking = FALSE
  /\ \E style \in Styles, isatty \in BOOLEAN : spinner = NewSpinner(style, isatty)

\* spinner.start()
SpinnerStart ==
  /\ pc = "spinner"
  /\ spinner' = Start(spinner)
  /\ pc' = "spinning"
  /\ last' = [op |-> "start"]
  /\ UNCHANGED <<config, stats, running, metadata, turn, connection, turns,
                 terminal, before, proto, thinking>>

\* spinner.stop() is called, after the sleep or after an earlier stop()
SpinnerStop ==
  /\ pc \in {"spinning", "stopped"}
  /\ spinner.stops < MaxStops
  /\ spinner' = BeginStop(spinner, "stopped")
  /\ pc' = "joining"
  /\ last' = [op |-> "stop"]
  /\ UNCHANGED <<config, stats, running, metadata, turn, connection, turns,
                 terminal, before, proto, thinking>>

SpinnerNext ==
  \/ SpinnerStart
  \/ SpinnerStop
  \/ JoinThread
  \/ Spin

\* the thread is scheduled, time.sleep returns and the test goes on
SpinnerSpec ==
  /\ SpinnerInit
  /\ [][SpinnerNext]_vars
  /\ WF_vars(SpinnerStart)
  /\ WF_vars(SpinnerStop)
  /\ WF_vars(JoinThread)
  /\ WF_vars(Spin)

(***************************************************************************)
(* cli.py: _run_single_query_ag_ui.                                        *)
(***************************************************************************)
\* number of events the stream of the query carries
MaxQueryStream == 3

ErrorTexts == {<<>>, <<"b", "a", "d">>}

UnknownError == <<"U", "n", "k", "n", "o", "w", "n", " ", "e", "r", "r", "o", "r">>

QueryErrorEvents == [type : {"RUN_ERROR"}, error : Opt(ErrorTexts)]

\* the events of client.run(query): the three the loop has a branch for, and others
QueryEvents == TextEvents \cup FinishedEvents \cup QueryErrorEvents \cup OtherEvents

\* what the stream of the query has carried so far: the number of events,
\* the delta of each text event and the error of the run-error event
NewQueryProto == [events |-> 0, deltas |-> <<>>, error |-> Absent]

\* the exceptions of the function: where one comes from and the text it carries
Exc(from, text) == [from |-> from, text |-> text]

\* what leaves `async with AGUIClient(url)` when the block raised exc:
\* __aexit__ closes the connection, and what it raises replaces exc
Leaving(exc, outcome) == IF outcome = "ok" THEN exc ELSE Exc("disconnect", <<>>)

\* AGUIClient.__aexit__
Close(outcome) ==
  /\ connected' = IF outcome = "ok" THEN connected \ {clients} ELSE connected
  /\ UNCHANGED <<agui_client, clients>>

\* a variant whose exceptions pass the except clause by
Raise_Unstopped(raised, exc) ==
  /\ spinner' = spinner
  /\ pc' = "raised"
  /\ last' = [op |-> "raise", raised |-> raised, exc |-> exc]

\* `except Exception as e: spinner.stop(); raise e`
Raise(raised, exc) ==
  /\ spinner' = BeginStop(spinner, "raised")
  /\ pc' = "joining"
  /\ last' = [op |-> "raise", raised |-> raised, exc |-> exc]

QueryInit ==
  /\ eggs = FALSE
  /\ jupyter_url = Absent
  /\ commands = RegisterCommands(eggs, jupyter_url)
  /\ stats = NewSessionStats
  /\ running = FALSE
  /\ model_name = "unknown"
  /\ context_window = 128000
  /\ tool_calls = <<>>
  /\ agui_client = NoClient
  /\ current_tool_call = NoToolCall
  /\ response_text = <<>>
  /\ pc = "query"
  /\ clients = 0
  /\ connected = {}
  /\ turns = 0
  /\ last = [op |-> "none"]
  /\ terminal = "none"
  /\ before = NoTurn
  /\ proto = NewQueryProto
  /\ thinking = FALSE
  /\ \E isatty \in BOOLEAN : spinner = NewSpinner("growing", isatty)

\* `async with AGUIClient(url) as client:`, and with the connection made
\* `spinner.start()` and `response_text = ""`
QueryConnect ==
  /\ pc = "query"
  /\ \E outcome \in DisconnectOutcomes :
       IF outcome = "ok"
       THEN /\ clients' = clients + 1
            /\ connected' = connected \cup {clients + 1}
            /\ spinner' = Start(spinner)
            /\ response_text' = <<>>
            /\ pc' = "events"
            /\ last' = [op |-> "connect"]
            /\ UNCHANGED agui_client
       ELSE /\ Raise(Exc("connect", <<>>), Exc("connect", <<>>))
            /\ UNCHANGED <<connection, response_text>>
  /\ UNCHANGED <<config, stats, running, metadata, tool_calls, current_tool_call, turns,
                 terminal, before, proto, thinking>>

\* one iteration of `async for event in client.run(query)`
QueryEvent ==
  /\ pc = "events"
  /\ proto.events < MaxQueryStream
  /\ \E ev \in QueryEvents, outcome \in DisconnectOutcomes :
       /\ proto' = [proto EXCEPT
                      !.events = @ + 1,
                      !.deltas = IF ev.type = "TEXT_MESSAGE_CONTENT"
                                 THEN Append(@, ev.delta) ELSE @,
                      !.error = IF ev.type = "RUN_ERROR" THEN ev.error ELSE @]
       /\ IF ev.type = "TEXT_MESSAGE_CONTENT"
          THEN /\ IF spinner.spinner_active
                  THEN spinner' = BeginStop(spinner, "events") /\ pc' = "joining"
                  ELSE UNCHANGED <<spinner, pc>>
               /\ response_text' = response_text \o OrElse(ev.delta, <<>>)
               /\ last' = [op |-> "event", type |-> ev.type]
               /\ UNCHANGED connection
          ELSE IF ev.type = "RUN_FINISHED"
          THEN /\ spinner' = BeginStop(spinner, "exit")
               /\ pc' = "joining"
               /\ last' = [op |-> "event", type |-> ev.type]
               /\ UNCHANGED <<connection, response_text>>
          ELSE IF ev.type = "RUN_ERROR"
          THEN LET raised == Exc("RUN_ERROR", OrElse(ev.error, UnknownError))
               IN /\ Raise(raised, Leaving(raised, outcome))
                  /\ Close(outcome)
                  /\ UNCHANGED response_text
          ELSE /\ last' = [op |-> "event", type |-> ev.type]
               /\ UNCHANGED <<spinner, pc, connection, response_text>>
  /\ UNCHANGED <<config, stats, running, metadata, tool_calls, current_tool_call, turns,
                 terminal, before, thinking>>

\* the stream ends without run-finished: the loop ends, `spinner.stop()`
QueryExhausted ==
  /\ pc = "events"
  /\ spinner' = BeginStop(spinner, "exit")
  /\ pc' = "joining"
  /\ last' = [op |-> "exhausted"]
  /\ UNCHANGED <<config, stats, running, metadata, turn, connection, turns,
                 terminal, before, proto, thinking>>

\* client.run raises
QueryStreamRaises ==
  /\ pc = "events"
  /\ \E outcome \in DisconnectOutcomes :
       /\ Raise(Exc("stream", <<>>), Leaving(Exc("stream", <<>>), outcome))
       /\ Close(outcome)
  /\ UNCHANGED <<config, stats, running, metadata, turn, turns,
                 terminal, before, proto, thinking>>

\* `return response_text` leaves the `async with`
QueryExit ==
  /\ pc = "exit"
  /\ \E outcome \in DisconnectOutcomes :
       /\ Close(outcome)
       /\ IF outcome = "ok"
          THEN /\ pc' = "returned"
               /\ last' = [op |-> "return", text |-> response_text]
               /\ UNCHANGED spinner
          ELSE Raise(Exc("disconnect", <<>>), Exc("disconnect", <<>>))
  /\ UNCHANGED <<config, stats, running, metadata, turn, turns,
                 terminal, before, proto, thinking>>

QueryNext ==
  \/ QueryConnect
  \/ QueryEvent
  \/ QueryExhausted
  \/ QueryStreamRaises
  \/ QueryExit
  \/ JoinThread
  \/ Spin

QuerySpec == QueryInit /\ [][QueryNext]_vars

(***************************************************************************)
(* Properties.                                                             *)
(***************************************************************************)
\* the step is a send_message invocation
IsSendMessage == turns' = turns + 1

\* the step is an iteration of the event loop on an event of that type
IsEvent(type) == pc = "stream" /\ last'.op = "event" /\ last'.event.type = type

\* the step is the clear command
IsClear == pc = "prompt" /\ last'.op = "command" /\ last'.handler = "_cmd_clear"

\* the step handles a line as a command
IsCommand == pc = "prompt" /\ last'.op = "command"

\* the step is the exit command
IsExit == IsCommand /\ last'.handler = "_cmd_exit"

\* the first white-space-delimited token of a line after its first character
TokenOf(line) ==
  LET s == SubSeq(line, 2, Len(line))
      inked == {i \in 1..Len(s) : ~IsSpace(s[i])}
  IN IF inked = {} THEN <<>>
     ELSE LET a == CHOOSE i \in inked : \A j \in inked : i <= j
              b == CHOOSE j \in a..Len(s) :
                     /\ \A k \in a..j : k \in inked
                     /\ j = Len(s) \/ (j + 1) \notin inked
          IN SubSeq(s, a, b)

\* two characters that are the same letter, in whatever case
SameLetter(c, d) ==
  c = d \/ \E i \in 1..Len(UpperCase) : {c, d} = {UpperCase[i], LowerCase[i]}

\* the keys of the table that are the token, case apart
Registered(token) ==
  {k \in DOMAIN commands :
     Len(k) = Len(token) /\ \A i \in 1..Len(k) : SameLetter(k[i], token[i])}

\* the handler the table gives for a line, case apart
ExpectedHandler(line) ==
  IF Registered(TokenOf(line)) = {} THEN "unknown command"
  ELSE commands[CHOOSE k \in Registered(TokenOf(line)) : TRUE].handler

\* the records of tcs with that id
WithId(tcs, id) == {i \in 1..Len(tcs) : tcs[i].tool_call_id = id}

\* the first of them, where there is one
First(S) == CHOOSE i \in S : \A j \in S : i <= j

\* the result text a result event carries
Carried(ev) == IF ev.tool_result = Absent THEN <<>> ELSE ev.tool_result[1]

\* C1: the session holds at most one live connection, and it is the one of
\* the handle; a client is created and connected only by a send_message that
\* finds the handle null, and a send_message that finds a handle keeps it
\* and calls no connect.
C1_OneLiveConnection ==
  [][/\ Cardinality(connected') <= 1
     /\ connected' \subseteq {agui_client'}
     /\ clients' # clients =>
          /\ IsSendMessage
          /\ agui_client = NoClient
          /\ clients' = clients + 1
          /\ agui_client' = clients'
     /\ connected' \ connected # {} => IsSendMessage /\ agui_client = NoClient
     /\ (IsSendMessage /\ agui_client # NoClient) =>
          /\ UNCHANGED connection
          /\ last'.connect = "not called"]_vars

\* a second message is being answered over the connection of the first
C1_Reused ==
  /\ turns = 2 /\ pc = "stream"
  /\ clients = 1 /\ agui_client = 1 /\ connected = {1}

\* C2: a clear command whose server-side reset succeeded leaves the stats
\* all-zero and the handle null with no connection open, and every
\* send_message leaves the handle non-null.
C2_ClearResets ==
  [][/\ (IsClear /\ last'.reset = 200) =>
          /\ stats' = NewSessionStats
          /\ agui_client' = NoClient
          /\ connected' = {}
     /\ IsSendMessage => agui_client' # NoClient]_vars

\* C3: at the end of a turn whose stream kept the ordering guarantee, the
\* args_json of every tool call is the concatenation, in arrival order, of
\* the args deltas that carried its id.
C3_ArgsOfEachId ==
  (pc = "usage" /\ proto.ok) =>
    \A i \in 1..Len(tool_calls) :
      tool_calls[i].args_json = proto.sent[tool_calls[i].tool_call_id]

\* C4: a result event sets the result (the event's) and the status (complete)
\* of the first call with its id, changes no other call, and clears the
\* in-flight call; and after a stream start(id), args(id)*, end(id),
\* result(id), run-finished there is one call, of that id, complete, with a
\* result and the args sent for it.
C4_ResultCompletes ==
  [][/\ IsEvent("TOOL_CALL_RESULT") =>
          LET ev == last'.event
              same == WithId(tool_calls, IdOf(ev))
          IN /\ current_tool_call' = NoToolCall
             /\ Len(tool_calls') = Len(tool_calls)
             /\ \A i \in 1..Len(tool_calls) :
                  tool_calls'[i] =
                    IF same # {} /\ i = First(same)
                    THEN [tool_calls[i] EXCEPT !.result = Some(Carried(ev)),
                                               !.status = "complete"]
                    ELSE tool_calls[i]
     /\ (/\ pc' = "usage" /\ terminal' = "RUN_FINISHED" /\ proto'.ok
         /\ \E id \in ToolCallIds :
              /\ proto'.life[id] = "resulted"
              /\ \A other \in ToolCallIds \ {id} : proto'.life[other] = "new") =>
          /\ Len(tool_calls') = 1
          /\ proto'.life[tool_calls'[1].tool_call_id] = "resulted"
          /\ tool_calls'[1].args_json = proto'.sent[tool_calls'[1].tool_call_id]
          /\ tool_calls'[1].result # Absent
          /\ tool_calls'[1].status = "complete"]_vars

\* the stream start(t1), args(t1, "a"), end(t1), result(t1, "found"),
\* run-finished has been consumed
C4_OneCompleteCall ==
  /\ pc = "usage" /\ terminal = "RUN_FINISHED" /\ proto.ok
  /\ proto.life = [i \in ToolCallIds |-> IF i = "t1" THEN "resulted" ELSE "new"]
  /\ proto.sent["t1"] = <<"a">>
  /\ Len(tool_calls) = 1
  /\ tool_calls[1].result = Some(<<"f", "o", "u", "n", "d">>)

\* C5: a run-error event ends the loop, so no later event of the turn is
\* handled; a call in flight then gets the status error; and the messages
\* counter is one more than before the turn.
C5_RunErrorEndsTurn ==
  [][/\ IsEvent("RUN_ERROR") =>
          /\ pc' # "stream"
          /\ current_tool_call # NoToolCall =>
               /\ tool_calls'[current_tool_call].status = "error"
               /\ tool_calls' =
                    [tool_calls EXCEPT ![current_tool_call].status = "error"]
          /\ stats'.messages = before.stats.messages + 1
     /\ terminal = "RUN_ERROR" => last'.op # "event"]_vars

\* a run-error has arrived while a call was in flight
C5_ErrorInFlight ==
  /\ pc = "usage" /\ terminal = "RUN_ERROR"
  /\ current_tool_call # NoToolCall
  /\ tool_calls[current_tool_call].status = "error"
  /\ stats.messages = 1

\* C6: once run-finished is consumed no event of the turn is handled, and the
\* response text, the tool-call list and the tool-call counter stay as they are.
C6_NothingAfterRunFinished ==
  [][terminal = "RUN_FINISHED" =>
       /\ last'.op # "event"
       /\ response_text' = response_text
       /\ tool_calls' = tool_calls
       /\ stats'.tool_calls = stats.tool_calls]_vars

\* run-finished has been consumed after text and a tool call
C6_Finished ==
  /\ pc = "usage" /\ terminal = "RUN_FINISHED"
  /\ response_text # <<>>
  /\ tool_calls # <<>>

C8_AbortedTurnKeepsState ==
  [][LET same(now, was) ==
           /\ now.stats.total_input_tokens = was.stats.total_input_tokens
           /\ now.stats.total_output_tokens = was.stats.total_output_tokens
           /\ now.stats.tool_calls = was.stats.tool_calls
           /\ now.stats.messages = was.stats.messages + 1
           /\ now.tool_calls = was.tool_calls
           /\ now.agui_client = was.agui_client
         here == [stats |-> stats, agui_client |-> agui_client,
                  tool_calls |-> tool_calls]
         after == [stats |-> stats', agui_client |-> agui_client',
                   tool_calls |-> tool_calls']
     IN /\ (IsSendMessage /\ pc' = "prompt") => same(after, here)
        /\ (pc = "stream" /\ last'.op = "raised") => same(after, before)]_vars

\* C9: no failure ends the session: run() is left by an exception at most
\* where exit was requested, and it is left normally only with running
\* false, which only the exit command sets.
C9_NoFatalError ==
  /\ pc = "crashed" => last.op = "command" /\ last.handler = "_cmd_exit"
  /\ pc = "done" => ~running

\* C10: a failed usage query after a turn leaves the token totals of the stats
\* as they were before the turn.
C10_FailedQueryKeepsTotals ==
  [][(pc = "usage" /\ last'.op = "usage" /\ last'.status # 200) =>
       /\ stats'.total_input_tokens = before.stats.total_input_tokens
       /\ stats'.total_output_tokens = before.stats.total_output_tokens]_vars

\* C11: an interrupt or an end of input at the prompt runs the exit path:
\* running becomes false, no connection stays open, and no further line is
\* read.
C11_InterruptExits ==
  [][/\ (pc = "prompt" /\ last'.op = "empty" /\ last'.input.kind # "line") =>
          /\ ~running'
          /\ connected' = {}
          /\ pc' # "prompt"
     /\ IsExit => ~running' /\ pc' # "prompt"]_vars

\* C12: the exit command sets running to false and leaves the handle null
\* with no connection open, and the loop ends.
C12_ExitDisconnects ==
  [][IsExit =>
       /\ ~running'
       /\ agui_client' = NoClient
       /\ connected' = {}
       /\ pc' = "done"]_vars

\* C13: a line that names the suggestions command is handled by its handler,
\* the one that returns the picked suggestion to be sent as the next message.
C13_SuggestionHandled ==
  [][(/\ IsCommand
      /\ \E i \in 1..Len(KeysOf(SuggestionsCommand)) :
           TokenOf(last'.line) = KeysOf(SuggestionsCommand)[i]) =>
       last'.handler = SuggestionsCommand.handler]_vars

\* C14: a line that starts with "/" is never sent as a message; when its
\* first token is no key of the table, the unknown-command notice is its
\* handling, the stats, the tool-call list, the handle and the connections
\* stay as they are, no turn starts, and the loop reads the next line.
C14_UnknownCommandIsNoOp ==
  [][/\ IsSendMessage => ~StartsWithSlash(last'.text)
     /\ (IsCommand /\ Registered(TokenOf(last'.line)) = {}) =>
          /\ last'.handler = "unknown command"
          /\ UNCHANGED <<stats, tool_calls, connection, running, turns>>
          /\ pc' = "prompt"]_vars

\* "/foo" has been handled with a connection open
C14_UnknownHandled ==
  /\ pc = "prompt" /\ last.op = "command"
  /\ last.line = <<"/", "f", "o", "o">>
  /\ last.handler = "unknown command"
  /\ connected # {}

\* C15: with every combination of the options, each alias of each command of
\* the registration list is a key of the table, and so is the name, and the
\* alias maps to the command the name maps to.
C15_AliasTransparent ==
  \A i \in 1..Len(CommandList(eggs, jupyter_url)) :
    LET cmd == CommandList(eggs, jupyter_url)[i]
    IN /\ cmd.name \in DOMAIN commands
       /\ \A j \in 1..Len(cmd.aliases) :
            /\ cmd.aliases[j] \in DOMAIN commands
            /\ commands[cmd.aliases[j]] = commands[cmd.name]

\* with the eggs and the jupyter command registered, "/q" has run the exit handler
C15_AliasOfExit ==
  /\ eggs /\ <<"j", "u", "p", "y", "t", "e", "r">> \in DOMAIN commands
  /\ last.op = "command"
  /\ last.line = <<"/", "q">>
  /\ last.handler = "_cmd_exit"
  /\ commands[<<"q">>] = commands[<<"e", "x", "i", "t">>]

\* C16: the handler run for a line is the one the table gives for the first
\* token after the "/", whatever the case of its letters and whatever follows
\* the token.
C16_DispatchByFoldedToken ==
  [][IsCommand => last'.handler = ExpectedHandler(last'.line)]_vars

\* "/New x" has cleared the conversation of a session with a message
C16_ClearedByNew ==
  /\ last.op = "command"
  /\ last.line = <<"/", "N", "e", "w", " ", "x">>
  /\ last.handler = "_cmd_clear"
  /\ last.reset = 200
  /\ turns = 1 /\ stats = NewSessionStats

\* C17: the response text starts empty with the turn, grows by each text
\* delta at its end, and is changed by nothing else; and after a stream of
\* text deltas ended by run-finished the tool-call list is empty, the
\* tool-call counter is what it was, and the messages counter is one higher.
C17_TextOnlyTurn ==
  [][/\ IsSendMessage => response_text' = <<>>
     /\ IsEvent("TEXT_MESSAGE_CONTENT") =>
          response_text' =
            response_text \o
              (IF last'.event.delta = Absent THEN <<>> ELSE last'.event.delta[1])
     /\ (~IsSendMessage /\ ~IsEvent("TEXT_MESSAGE_CONTENT")) =>
          response_text' = response_text
     /\ (pc' = "usage" /\ terminal' = "RUN_FINISHED" /\ proto' = NewProto) =>
          /\ tool_calls' = <<>>
          /\ stats'.tool_calls = before'.stats.tool_calls
          /\ stats'.messages = before'.stats.messages + 1]_vars

\* the deltas "H" and "i", then run-finished, have been consumed
C17_HiFinished ==
  /\ pc = "usage" /\ terminal = "RUN_FINISHED" /\ proto = NewProto
  /\ response_text = <<"H", "i">>
  /\ tool_calls = <<>> /\ stats.messages = 1

\* C18: a tool-call-start event appends one record to the list, in progress,
\* with the id and name of the event, no args and no result; the ordinal
\* shown is the position of that record; the tool-call counter goes up by one.
C18_StartAppendsOne ==
  [][IsEvent("TOOL_CALL_START") =>
       LET ev == last'.event
           new == tool_calls'[ToolNum(tool_calls')]
       IN /\ Len(tool_calls') = Len(tool_calls) + 1
          /\ SubSeq(tool_calls', 1, Len(tool_calls)) = tool_calls
          /\ ToolNum(tool_calls') = Len(tool_calls) + 1
          /\ new.tool_call_id = ev.tool_call_id[1]
          /\ new.tool_name = (IF ev.tool_name = Absent THEN "tool" ELSE ev.tool_name[1])
          /\ new.status = "in_progress"
          /\ new.args_json = <<>>
          /\ new.result = Absent
          /\ stats'.tool_calls = stats.tool_calls + 1
          /\ stats'.messages = stats.messages]_vars

\* a second tool call has been started after the first got arguments
C18_SecondStarted ==
  /\ pc = "stream" /\ last.op = "event"
  /\ last.event.type = "TOOL_CALL_START"
  /\ Len(tool_calls) = 2 /\ stats.tool_calls = 2
  /\ tool_calls[1].args_json # <<>>

\* C19: send_message empties the tool-call list; during a turn the list has
\* as many records as tool calls were started in the turn, and the records
\* it has stay in their places; nothing between turns changes the list.
C19_ListOfTheTurn ==
  [][/\ IsSendMessage => tool_calls' = <<>>
     /\ (pc \in {"stream", "usage"}) =>
          /\ Len(tool_calls') = stats'.tool_calls - before.stats.tool_calls
          /\ Len(tool_calls') >= Len(tool_calls)
          /\ \A i \in 1..Len(tool_calls) :
               tool_calls'[i].tool_call_id = tool_calls[i].tool_call_id
     /\ (pc \notin {"stream", "usage"} /\ ~IsSendMessage) => tool_calls' = tool_calls
     /\ (pc = "stream" /\ last'.op # "event") => tool_calls' = tool_calls
     /\ pc = "usage" => tool_calls' = tool_calls]_vars

\* the second turn has ended with one tool call, as the first had
C19_SecondTurnList ==
  /\ turns = 2 /\ pc = "usage"
  /\ Len(tool_calls) = 1 /\ stats.tool_calls = 2
  /\ before.tool_calls # <<>>

\* C20: an args-delta or end event leaves the number of records and the
\* status and result of each as they are; a status changes only by a result
\* event, to complete, or by a run-error event, to error.
C20_StatusChanges ==
  [][/\ (IsEvent("TOOL_CALL_ARGS") \/ IsEvent("TOOL_CALL_END")) =>
          /\ Len(tool_calls') = Len(tool_calls)
          /\ \A i \in 1..Len(tool_calls) :
               /\ tool_calls'[i].status = tool_calls[i].status
               /\ tool_calls'[i].result = tool_calls[i].result
     /\ \A i \in 1..Len(tool_calls) :
          (i <= Len(tool_calls') /\ tool_calls'[i].status # tool_calls[i].status) =>
            \/ IsEvent("TOOL_CALL_RESULT") /\ tool_calls'[i].status = "complete"
            \/ IsEvent("RUN_ERROR") /\ tool_calls'[i].status = "error"]_vars

\* the end of the arguments of a call has been handled, the call still in progress
C20_EndedInProgress ==
  /\ pc = "stream" /\ last.op = "event"
  /\ last.event.type = "TOOL_CALL_END"
  /\ Len(tool_calls) = 1
  /\ tool_calls[1].args_json = <<"a">>
  /\ tool_calls[1].status = "in_progress"
  /\ current_tool_call = 1

\* C21: no two turns run at once: a send_message starts, and a line is read
\* from the prompt, only when no turn is under way; from its start to its
\* return a turn is the only thing that runs.
C21_OneTurnAtATime ==
  [][/\ IsSendMessage => (~InTurn /\ before = NoTurn)
     /\ (InTurn /\ last' # last) =>
          /\ last'.op \in {"status", "bullet", "event", "exhausted", "raised", "usage"}
          /\ turns' = turns
          /\ stats'.messages = stats.messages]_vars

\* the second turn of the session is consuming events
C21_SecondTurnStreaming ==
  /\ turns = 2 /\ stats.messages = 2
  /\ pc = "stream" /\ last.op = "event"
  /\ before # NoTurn

\* C22: the response bullet, and every text delta and tool-call line of the
\* event loop, is written with the "Thinking..." status stopped.
C22_StoppedBeforeOutput ==
  [][(last' # last /\ last'.op \in {"bullet", "event"}) => (~thinking /\ ~thinking')]_vars

\* the status was shown and the bullet has been written after it stopped
C22_BulletWritten ==
  /\ last.op = "bullet" /\ pc = "stream"
  /\ ~thinking
  /\ turns = 1

\* C23: from one completed turn to the next, with no reset between them,
\* total_input_tokens and total_output_tokens do not decrease.
C23_TotalsNeverDecrease ==
  [][(pc = "usage" /\ last'.op = "usage") =>
       /\ stats'.total_input_tokens >= stats.total_input_tokens
       /\ stats'.total_output_tokens >= stats.total_output_tokens]_vars

\* C24: in every state total_tokens is the sum of total_input_tokens and
\* total_output_tokens.
C24_TotalIsSum ==
  TotalTokens(stats) = stats.total_input_tokens + stats.total_output_tokens

\* the second turn has ended with tokens of both kinds counted
C24_BothCounted ==
  /\ turns = 2 /\ pc = "prompt" /\ last.op = "usage"
  /\ stats.total_input_tokens = 2 /\ stats.total_output_tokens = 2
  /\ TotalTokens(stats) = 4

\* C26: a metadata fetch that fails, at the start of the session or after a
\* turn, leaves model_name and context_window as they were, and run() goes
\* on to the prompt, running.
C26_FailedFetchSwallowed ==
  [][(/\ pc \in {"init", "usage"}
      /\ last'.op \in {"start", "usage"}
      /\ last'.status # 200) =>
       /\ UNCHANGED metadata
       /\ pc' = "prompt"
       /\ running']_vars

\* the fetch after a turn has failed and the name fetched at the start is kept
C26_StaleNameKept ==
  /\ pc = "prompt" /\ last.op = "usage" /\ last.status # 200
  /\ model_name = "gpt" /\ context_window = 200000

\* C27: an empty line changes nothing of the session - stats, tool-call
\* list, connection handle, running - sends no message, runs no handler, and
\* run() is at the prompt again.
C27_EmptyLineIsNoOp ==
  [][(pc = "prompt" /\ last'.op = "empty") =>
       /\ UNCHANGED <<stats, tool_calls, connection, running, turns, config, metadata>>
       /\ pc' = "prompt"]_vars

\* an interrupted prompt after a turn: the line is empty, the connection is kept
C27_EmptyAfterTurn ==
  /\ last.op = "empty" /\ last.input.kind = "interrupt"
  /\ turns = 1 /\ agui_client # NoClient
  /\ stats.messages = 1

\* C28: whenever the handle is set, connect() has returned on that client.
C28_HandleIsConnected ==
  agui_client # NoClient => agui_client \in connected

\* C29: when the loop has ended by a run-error event, no tool call of the
\* turn is left in_progress.
C29_NoneInProgressAfterError ==
  terminal = "RUN_ERROR" =>
    \A i \in 1..Len(tool_calls) : tool_calls[i].status # "in_progress"

C25_FormatArgsNeverFails ==
  last.op = "format_args" =>
    LET args_json == tool_calls[current_tool_call].args_json
        max_value_len == last.max_value_len
        args == Loads(args_json, FALSE)
        object == args_json # <<>> /\ args.err = "none" /\ args.val.t = "dict"
        items == args.val.items
        k == Len(items) - 3
        value(i) == NoNewLines(PyStr(items[i].val))
        cut(i) == IF Len(value(i)) <= max_value_len THEN value(i)
                  ELSE SubSeq(value(i), 1, max_value_len - 3) \o <<".", ".", ".">>
        pairs == [i \in 1..(IF k > 0 THEN 3 ELSE Len(items)) |->
                    items[i].key \o <<"=">> \o cut(i)]
        more == IF k > 0
                THEN <<" ", "(", "+">> \o Decimal(k) \o <<" ", "m", "o", "r", "e", ")">>
                ELSE <<>>
    IN /\ last.raised = "none"
       /\ object =>
            /\ last.summary = Join(pairs, <<",", " ">>) \o more
            /\ \A i \in DOMAIN pairs : Len(cut(i)) <= max_value_len
       /\ (~object /\ Len(args_json) <= 60) => last.summary = args_json
       /\ (~object /\ Len(args_json) > 60) =>
            last.summary = SubSeq(args_json, 1, 60) \o <<".", ".", ".">>

\* C31: while the loop handles events the in-flight call is none or the
\* last record of the list; an args-delta event appends its text to that
\* last record, whatever id the event carries, and changes nothing when no
\* call is in flight.
C31_InFlightIsLast ==
  [][/\ (pc = "stream") => current_tool_call \in {NoToolCall, Len(tool_calls)}
     /\ IsEvent("TOOL_CALL_ARGS") =>
          LET delta == OrElse(last'.event.tool_args, <<>>)
              n == Len(tool_calls)
          IN /\ current_tool_call' = current_tool_call
             /\ current_tool_call = NoToolCall => tool_calls' = tool_calls
             /\ current_tool_call # NoToolCall =>
                  /\ Len(tool_calls') = n
                  /\ tool_calls'[n].args_json = tool_calls[n].args_json \o delta
                  /\ \A i \in 1..(n - 1) : tool_calls'[i] = tool_calls[i]]_vars

\* a delta that carries the id of the first call has gone to the second
C31_DeltaToLastStarted ==
  /\ pc = "stream" /\ last.op = "event"
  /\ last.event.type = "TOOL_CALL_ARGS"
  /\ last.event.tool_call_id = Some("t1")
  /\ Len(tool_calls) = 2
  /\ tool_calls[1].tool_call_id = "t1" /\ tool_calls[1].args_json = <<>>
  /\ tool_calls[2].tool_call_id = "t2" /\ tool_calls[2].args_json = <<"a">>

\* C32: a clear whose reset request fails changes nothing: stats, the
\* handle and the connection behind it, the tool-call list, the metadata and
\* running are as before and run() is at the prompt; a message sent with a
\* handle set connects nothing and keeps the handle.
C32_FailedClearKeepsAll ==
  [][/\ (IsClear /\ last'.reset # 200) =>
          /\ UNCHANGED <<stats, connection, tool_calls, metadata, running>>
          /\ last'.disconnect = "not called"
          /\ pc' = "prompt"
     /\ (IsSendMessage /\ agui_client # NoClient) =>
          /\ UNCHANGED connection
          /\ last'.connect = "not called"]_vars

\* the reset request has failed after a turn with a tool call: the
\* connection is live and the counters stand
C32_FailedAfterTurn ==
  /\ pc = "prompt" /\ last.op = "command"
  /\ last.handler = "_cmd_clear" /\ last.reset # 200
  /\ agui_client # NoClient /\ agui_client \in connected
  /\ stats.messages = 1 /\ Len(tool_calls) = 1

\* C33: a clear whose reset request succeeds leaves the tool-call list, the
\* metadata, running and the command table as they are; a command that
\* follows finds the list of the last turn.
C33_ClearKeepsTheRest ==
  [][/\ (IsClear /\ last'.reset = 200) =>
          UNCHANGED <<tool_calls, metadata, running, config>>
     /\ IsCommand => tool_calls' = tool_calls]_vars

\* tools-last after a clear: the counters are reset, the list of the turn
\* before the clear is there
C33_ToolsLastAfterClear ==
  /\ pc = "prompt" /\ last.op = "command"
  /\ last.handler = "_cmd_tools_last"
  /\ turns = 1 /\ stats = NewSessionStats /\ agui_client = NoClient
  /\ Len(tool_calls) = 1

\* C35: messages goes up by one with every send_message, whether it then
\* connects or not, and tool_calls by one with every tool-call-start event;
\* no other step changes either, but a clear that succeeds, which sets the
\* stats anew.
C35_CountersCount ==
  [][/\ IsSendMessage => stats'.messages = stats.messages + 1
     /\ IsEvent("TOOL_CALL_START") => stats'.tool_calls = stats.tool_calls + 1
     /\ (~IsSendMessage /\ stats'.messages # stats.messages) =>
          (IsClear /\ last'.reset = 200 /\ stats' = NewSessionStats)
     /\ (~IsEvent("TOOL_CALL_START") /\ stats'.tool_calls # stats.tool_calls) =>
          (IsClear /\ last'.reset = 200 /\ stats' = NewSessionStats)
     /\ IsSendMessage => stats'.tool_calls = stats.tool_calls
     /\ IsEvent("TOOL_CALL_START") => stats'.messages = stats.messages]_vars

\* a second turn after a clear has started a tool call: one message and one
\* tool call counted, of two turns
C35_CountedSinceClear ==
  /\ turns = 2 /\ pc = "stream"
  /\ stats.messages = 1 /\ stats.tool_calls = 1
  /\ before.stats = NewSessionStats

\* C34: a KeyboardInterrupt inside send_message ends the session by the
\* exit path: running is FALSE, the connection is closed and the handle
\* None, and run() has ended, not gone back to the prompt.
C34_InterruptRunsExit ==
  [][(InTurn /\ last'.op = "interrupt") =>
       /\ running' = FALSE
       /\ agui_client' = NoClient
       /\ connected' = connected \ {agui_client}
       /\ pc' = "done"]_vars

\* C36: for the same options build_commands and _register_commands give
\* tables with the same keys, each key under a command of the same name.
C36_SameTables ==
  LET built == BuildCommands(eggs, jupyter_url)
  IN /\ DOMAIN built = DOMAIN commands
     /\ \A k \in (DOMAIN built) \cap (DOMAIN commands) : built[k].name = commands[k].name

\* C39: in the key bindings of the registry every command that declares a
\* shortcut is the command its shortcut is bound to.
C39_OwnShortcut ==
  LET kb == CreateKeyBindings(commands, CommandList(eggs, jupyter_url))
  IN \A k \in DOMAIN commands :
       commands[k].shortcut # Absent =>
         /\ commands[k].shortcut[1] \in DOMAIN kb
         /\ kb[commands[k].shortcut[1]] = commands[k].name

\* C37: for every style, stop() after start() returns, and only once the
\* animation thread has ended; then spinner_active is false, and after the
\* return no frame is written; also without a TTY and for a second stop().
C37_StopEndsTheAnimation ==
  /\ [](pc = "stopped" =>
          /\ ~spinner.spinner_active
          /\ spinner.spinner_thread \in {"none", "exited"}
          /\ (spinner.isatty <=> spinner.spinner_thread = "exited"))
  /\ [][pc = "stopped" => spinner'.line = spinner.line /\ spinner'.frame = spinner.frame]_vars
  /\ (pc = "spinning") ~> (pc = "stopped" /\ spinner.stops = 1)
  /\ (pc = "joining") ~> (pc = "stopped")

\* the second stop() has returned after an animation that wrote frames
C37_StoppedTwice ==
  /\ pc = "stopped"
  /\ spinner.stops = 2
  /\ spinner.style = "growing"
  /\ spinner.isatty
  /\ spinner.frame = 3
  /\ spinner.line = Blank

\* the text of a sequence of deltas, where an absent delta adds nothing
RECURSIVE TextOf(_)
TextOf(deltas) ==
  IF deltas = <<>> THEN <<>>
  ELSE (IF Head(deltas) = Absent THEN <<>> ELSE Head(deltas)[1]) \o TextOf(Tail(deltas))

\* C38: when _run_single_query_ag_ui has returned or raised (after
\* run-finished, after a stream that ended without it, after run-error,
\* after a failed connection) spinner_active is false and the animation has
\* ended; the text returned is the deltas received, in order; the exception
\* raised for a run-error carries the error text of the event.
C38_SpinnerStoppedOnExit ==
  /\ pc \in {"returned", "raised"} => ~spinner.spinner_active /\ Joined(spinner)
  /\ pc = "returned" => last.text = TextOf(proto.deltas)
  /\ (pc = "raised" /\ last.raised.from = "RUN_ERROR" /\ OrElse(proto.error, <<>>) # <<>>) =>
       last.raised.text = proto.error[1]

\* a query answered on a terminal: two deltas, run-finished, the text returned
C38_ReturnedAfterAnimation ==
  /\ pc = "returned"
  /\ spinner.isatty
  /\ spinner.stops = 2
  /\ spinner.line = Blank
  /\ Len(proto.deltas) = 2
  /\ last.text = <<"H", "i">>

====
